---- MODULE Spec2Model ----
(***************************************************************************)
(* A model of the project discovery and analysis pipeline: the worker's    *)
(* processJob, the project table and its writers, the rate limiter, the    *)
(* debouncer, the file watcher and its Redis publisher, the analysis       *)
(* queue and its delete routes, the cache, the websocket fan-out, the      *)
(* backoff of a retry and the analysis timeout.                            *)
(*                                                                         *)
(* Each component has its own specification (SpecJob, SpecDb, SpecRL,      *)
(* SpecDeb, SpecPub, SpecQueue, SpecCache, SpecStop, SpecWatch, SpecWs,    *)
(* SpecDel, SpecForce, SpecBackoff, SpecTimeout, SpecExec, and SpecPubLive *)
(* with fairness) over one set of variables; a specification leaves the    *)
(* other components' variables unchanged.                                  *)
(***************************************************************************)
EXTENDS Integers, Sequences, FiniteSets, TLC

VARIABLES
    \* ---- WorkerProcessor.processJob (one execution) ----
    jpc,            \* position of processJob
    events,         \* analysis:* events published on the bus by this execution, in order
    forceRefresh,   \* job.data.forceRefresh
    fromCache,      \* the result being saved came from the cache (cache-hit branch)
    resultFlag,     \* result.metadata.cacheHit of the result in hand, or NoFlag
    rowFlag,        \* cacheHit of the ProjectAnalysis row this execution created, or NoFlag
    calls,          \* invocations of rateLimiter.execute by this execution
    \* ---- the projects / project_analyses tables ----
    projects,       \* path -> row, or NoRow
    analyses,       \* path -> number of ProjectAnalysis rows
    \* ---- writers of the tables (discovery subscribers, scan, worker) ----
    hpc,            \* handler -> position in handleProjectAdded / the scan's loop body
    hkind,          \* handler -> "subscriber" (handleProjectAdded) or "scan" (POST /projects/scan),
                    \* "subscriber" while it handles nothing
    hpath,          \* handler -> path being handled
    hmeta,          \* handler -> metadata extracted by the handler
    hcreated,       \* handler -> result.created of createProjectSafe
    hfailed,        \* handler -> createProjectSafe threw
    hremoved,       \* handler -> a removal of its path was handled since it began
    hmade,          \* handler -> its tx.project.create inserted the row
    apc,            \* position of the operator request in flight (analyze, reset-stuck)
    apath,          \* project of the operator request in flight
    aprev,          \* project.status as findProjectById gave it to the analyze request in flight
    jobs,           \* projects with a waiting job in the analysis queue
    wpc,            \* position of the worker's active job, as far as the tables see it
    wpath,          \* project of the worker's active job
    resetIds,       \* the projects the reset-stuck request in flight has reset
    \* ---- RateLimiter ----
    now,            \* Date.now(), in ticks
    requestTimestamps,
    currentConcurrent,
    rpc,            \* caller -> position in execute / waitForSlot
    wake,           \* caller -> time its sleep() timer is due
    attempt,        \* caller -> attempt counter of execute
    lastError,      \* caller -> the kind of error fn last failed with in this call, or NoError
    raised,         \* caller -> the error the latest invocation of fn in this call raised, or NoError
    reservations,   \* every timestamp ever recorded by waitForSlot, in order
    \* ---- Debouncer ----
    timers,         \* Debouncer.timers: key -> due time of the timer handle, or NoTimer
    pendingEvents,  \* Debouncer.pendingEvents: key -> data, or NoData
    scheduled,      \* the runtime's live setTimeout timers, as [key, due]
    lastCall,       \* key -> [data, time, coalesced] of the latest debounce call not cancelled
                    \* (coalesced: it replaced a pending event), or NoCall
    fired,          \* key -> number of callback invocations since the latest debounce call
    lastFired,      \* key -> [data, time, byTimer] of the latest callback invocation
    \* ---- RedisPublisher ----
    isConnected,
    eventQueue,     \* the outbox
    inflight,       \* calls of client.publish not yet settled, in call order: [ev, rest], rest
                    \* being the events the flushQueue run awaiting the call has still to publish
    published,      \* events published on the channel, in order
    nextEvent,      \* id of the next event submitted to the publisher
    queuedLog,      \* every event handed to queueEvent since the outbox was last taken, in order
    dropped,        \* events dropped from a full outbox
    queueOrder,     \* the events ever handed to queueEvent, in the order of their first queueing
    behind,         \* event -> the events that were waiting in a flushQueue run when it was submitted
    \* ---- the analysis queue of one project (BullMQ 'project-analysis') ----
    qjobs,          \* job id -> [state, force, attempts, handed]
    qcache,         \* the cache holds an entry for the project's path and mtime
    qrows,          \* the project's ProjectAnalysis rows, as [job, fromCache], in the order persisted
    qcompleted,     \* the jobs of the analysis:completed events published, in order
    \* ---- CacheManager over its Redis client ----
    cnow,           \* new Date() / Redis's clock, in ticks
    cstore,         \* Redis: key -> [value, expire], or NoEntry
    spc,            \* position of the set call in flight
    sarg,           \* the key and the CachedAnalysis the set call in flight is storing
    gpc,            \* position of the get call in flight
    garg,           \* [path, lastModified, at] of the latest get call, at being its time
    gread,          \* what client.get gave the get call in flight
    gret,           \* what the latest get call returned, or Pending
    \* ---- FileWatcher.stop and the debounced handlers ----
    stpc,           \* position of stop()
    addPos,         \* directory -> position of its addDir event / handleDebouncedAdd
    removePos,      \* directory -> position of its unlinkDir event / handleDebouncedRemove
    wire,           \* the events handed to client.publish before client.quit
    flushedAdd,     \* the directories pending in addDebouncer when stop() flushed it
    flushedRemove,  \* the directories pending in removeDebouncer when stop() flushed it
    \* ---- FileWatcher: the add and the remove debouncer of each directory ----
    wnow,           \* Date.now(), in ticks
    wtimers,        \* [kind, directory] -> due time of the debouncer's pending event, or NoTimer
    notified,       \* directory -> [kind, time] of chokidar's latest notification, or NoNote
    delivered,      \* directory -> kinds of the debounced events delivered in the
                    \* debounce window of the latest notification, in order
    \* ---- websocketPlugin: the realtime fan-out ----
    clients,        \* the connection set
    readyState,     \* socket -> "none" (not yet connected), "open" or "closed"
    pinging,        \* socket -> its keepalive interval is set
    frames,         \* socket -> the frames handed to socket.send / socket.ping, in order,
                    \* as [kind, ev, ok], ok being whether the call returned
    received,       \* number of events received on the bus channel
    pings,          \* number of keepalive intervals that have run
    \* ---- DELETE /queue/jobs/:id ----
    djobs,          \* job -> its state in the queue: "none" (no such job), "waiting",
                    \* "active" (locked by the worker processing it) or "completed"
    dpc,            \* request -> position in the delete handler
    dtarget,        \* request -> params.id of its latest call
    dstate,         \* request -> what job.getState() gave its latest call, or "none"
    dresp,          \* request -> the status its latest call answered with, or "none"
    \* ---- one failed attempt: analyzeProject's catch, execute's catch, calculateBackoff ----
    retry,          \* [pc, error, thrown, attempt, delay]: the error the API call failed
                    \* with, the error analyzeProject threw for it, the number of the
                    \* retry, and the delay execute sleeps before it
    \* ---- the analyzer call of processJob under withTimeout ----
    tpc,            \* job -> "idle", or "running" while its fn is in flight in execute
    tslots,         \* the rate limiter's currentConcurrent
    apiCalls,       \* job -> number of its client.messages.create calls not yet settled
    \* ---- one call of RateLimiter.execute, for any configuration ----
    ex              \* [pc, option, config, attempt, ran, thrown]: options.maxRetries and
                    \* config.maxRetries of the call, execute's attempt counter, the
                    \* invocations of fn, and lastError

jobVars == <<jpc, events, forceRefresh, fromCache, resultFlag, rowFlag, calls>>
dbVars  == <<projects, analyses>>
hVars   == <<hpc, hkind, hpath, hmeta, hcreated, hfailed, hremoved, hmade, apc, apath, aprev, jobs, wpc, wpath, resetIds>>
rlVars  == <<now, requestTimestamps, currentConcurrent, rpc, wake, attempt, lastError, raised, reservations>>
debVars == <<timers, pendingEvents, scheduled, lastCall, fired, lastFired>>
pubVars == <<isConnected, eventQueue, inflight, published, nextEvent, queuedLog, dropped,
            queueOrder, behind>>
qVars   == <<qjobs, qcache, qrows, qcompleted>>
cVars   == <<cnow, cstore, spc, sarg, gpc, garg, gread, gret>>
sVars   == <<stpc, addPos, removePos, wire, flushedAdd, flushedRemove>>
wVars   == <<wnow, wtimers, notified, delivered>>
wsVars  == <<clients, readyState, pinging, frames, received, pings>>
delVars == <<djobs, dpc, dtarget, dstate, dresp>>
boVars  == <<retry>>
toVars  == <<tpc, tslots, apiCalls>>
exVars  == <<ex>>
vars    == <<jobVars, dbVars, hVars, rlVars, debVars, pubVars, qVars, cVars, sVars, wVars, wsVars, delVars, boVars, toVars, exVars>>

\* what the steps of one component leave alone
otherThanJob      == <<exVars, toVars, boVars, delVars, wsVars, wVars, sVars, cVars, hVars, rlVars, debVars, pubVars, qVars>>
otherThanRL       == <<exVars, toVars, boVars, delVars, wsVars, wVars, sVars, cVars, jobVars, dbVars, hVars, debVars, pubVars, qVars>>
otherThanDeb      == <<exVars, toVars, boVars, delVars, wsVars, wVars, sVars, cVars, jobVars, dbVars, hVars, pubVars, qVars,
                       requestTimestamps, currentConcurrent, rpc, wake, attempt, lastError,
                       raised, reservations>>
otherThanPub      == <<exVars, toVars, boVars, delVars, wsVars, wVars, sVars, cVars, jobVars, dbVars, hVars, rlVars, debVars, qVars>>
otherThanHandlers == <<exVars, toVars, boVars, delVars, wsVars, wVars, sVars, cVars, jobVars, rlVars, debVars, pubVars, qVars, apc, apath, aprev, jobs, wpc, wpath, resetIds>>
otherThanOps      == <<exVars, toVars, boVars, delVars, wsVars, wVars, sVars, cVars, jobVars, rlVars, debVars, pubVars, qVars,
                       hpc, hkind, hpath, hmeta, hcreated, hfailed, hremoved, hmade>>
otherThanQueue    == <<exVars, toVars, boVars, delVars, wsVars, wVars, sVars, cVars, jobVars, dbVars, hVars, rlVars, debVars, pubVars>>
otherThanCache    == <<exVars, toVars, boVars, delVars, wsVars, wVars, sVars, jobVars, dbVars, hVars, rlVars, debVars, pubVars, qVars>>
otherThanStop     == <<exVars, toVars, boVars, delVars, wsVars, wVars, jobVars, dbVars, hVars, rlVars, debVars, pubVars, qVars, cVars>>
otherThanWatch == <<exVars, toVars, boVars, delVars, wsVars, jobVars, dbVars, hVars, rlVars, debVars, pubVars, qVars, cVars, sVars>>
otherThanWs == <<exVars, toVars, boVars, delVars, jobVars, dbVars, hVars, rlVars, debVars, pubVars, qVars, cVars, sVars, wVars>>
otherThanDel == <<exVars, toVars, boVars, jobVars, dbVars, hVars, rlVars, debVars, pubVars, qVars, cVars, sVars, wVars, wsVars>>
otherThanBackoff == <<exVars, toVars, jobVars, dbVars, hVars, rlVars, debVars, pubVars, qVars, cVars, sVars, wVars, wsVars, delVars>>
otherThanTimeout == <<exVars, jobVars, dbVars, hVars, rlVars, debVars, pubVars, qVars, cVars, sVars, wVars, wsVars, delVars, boVars>>
otherThanExec == <<jobVars, dbVars, hVars, rlVars, debVars, pubVars, qVars, cVars, sVars, wVars, wsVars, delVars, boVars, toVars>>

(***************************************************************************)
(* The tables.                                                             *)
(***************************************************************************)
Paths    == {"p1"}
MetaVals == {"m1", "m2"}
NoRow    == [status |-> "none"]

ProjectStatus == {"DISCOVERED", "QUEUED", "ANALYZING", "ANALYZED", "ERROR", "ARCHIVED"}

\* a bound on the ProjectAnalysis rows of one project
MaxAnalyses == 2

Row(st, act, at, m) == [status |-> st, isActive |-> act, analyzedAt |-> at, meta |-> m]

Exists(p) == projects[p] # NoRow

(***************************************************************************)
(* WorkerProcessor.saveToDatabase: its two writes.                         *)
(***************************************************************************)
\* prisma.projectAnalysis.create
SaveCreateAnalysis(p) ==
    analyses' = [analyses EXCEPT ![p] = @ + 1]

\* a project.update that sets the status and leaves analyzedAt as it was
SaveUpdateStatusOnly(p) ==
    projects' = [projects EXCEPT ![p] = [@ EXCEPT !.status = "ANALYZED"]]

\* prisma.project.update({status: 'ANALYZED', analyzedAt: new Date()})
SaveUpdateProject(p) ==
    projects' = [projects EXCEPT ![p] = [@ EXCEPT !.status = "ANALYZED", !.analyzedAt = TRUE]]

(***************************************************************************)
(* WorkerProcessor.processJob, one execution, one await per step.          *)
(*                                                                         *)
(* WebSocketEmitter.emit never throws (it catches a failed publish and     *)
(* returns false).  job.updateProgress, the filesystem, the context        *)
(* extractor, the database and the rate-limited analyzer call may throw,   *)
(* which transfers control to the catch block of processJob.               *)
(***************************************************************************)
JobPath == "p1"
NoFlag  == "none"

\* WebSocketEmitter.emit(event), the bus being reachable: publisher.publish
\* resolves and the event is on the channel
Emit(type) == events' = Append(events, type)

\* updateProgress(job, {status, progress}) at each position: the progress
\* reported and the position that follows it.
ProgressAt ==
    [ p0      |-> [progress |-> 0,   next |-> "validate"],
      p10     |-> [progress |-> 10,  next |-> "cacheGet"],
      p20     |-> [progress |-> 20,  next |-> "extract"],
      p50     |-> [progress |-> 50,  next |-> "analyze"],
      p80     |-> [progress |-> 80,  next |-> "cacheSet"],
      p90     |-> [progress |-> 90,  next |-> "save"],
      p100    |-> [progress |-> 100, next |-> "returned"],
      pFailed |-> [progress |-> 0,   next |-> "thrown"] ]

\* the awaits between the progress updates that may throw and publish nothing
StepAt ==
    [ validate |-> "stat",
      extract  |-> "dbMeta",
      dbMeta   |-> "p50",
      analyze  |-> "p80" ]

\* an error thrown at position pc: into the catch block, or, from within the
\* catch block, out of processJob
Throw(pc) == IF pc = "pFailed" THEN "thrown" ELSE "catch"

JobEmitStarted ==
    /\ jpc = "start"
    /\ Emit("analysis:started")
    /\ jpc' = "p0"
    /\ UNCHANGED <<forceRefresh, fromCache, resultFlag, rowFlag, calls, dbVars>>
    /\ UNCHANGED otherThanJob

\* updateProgress: job.updateProgress (may throw), then emitProgress
JobUpdateProgress ==
    /\ jpc \in DOMAIN ProgressAt
    /\ \/ /\ Emit("analysis:progress")
          /\ jpc' = ProgressAt[jpc].next
       \/ /\ jpc' = Throw(jpc)
          /\ UNCHANGED events
    /\ UNCHANGED <<forceRefresh, fromCache, resultFlag, rowFlag, calls, dbVars>>
    /\ UNCHANGED otherThanJob

\* validateProjectPath, extractContext under its timeout, project.update of
\* the context metadata, rateLimiter.execute (whose result carries the
\* metadata.cacheHit the analyzer derived from the provider's usage report)
JobStep ==
    /\ jpc \in DOMAIN StepAt
    /\ \/ jpc' = StepAt[jpc]
       \/ jpc' = Throw(jpc)
    /\ IF jpc = "analyze"
       THEN /\ calls' = calls + 1
            /\ resultFlag' \in (IF jpc' = "p80" THEN BOOLEAN ELSE {resultFlag})
       ELSE UNCHANGED <<calls, resultFlag>>
    /\ UNCHANGED <<events, forceRefresh, fromCache, rowFlag, dbVars>>
    /\ UNCHANGED otherThanJob

\* fs.stat, then the forceRefresh test
JobStat ==
    /\ jpc = "stat"
    /\ \/ jpc' = IF forceRefresh THEN "p20" ELSE "p10"
       \/ jpc' = Throw(jpc)
    /\ UNCHANGED <<events, forceRefresh, fromCache, resultFlag, rowFlag, calls, dbVars>>
    /\ UNCHANGED otherThanJob

\* cacheManager.get: a hit goes to saveToDatabase with the result stored in
\* the entry, which carries the metadata.cacheHit it was stored with; a miss
\* (or a cache error, which get reports as a miss) goes on to the extraction
JobCacheGet ==
    /\ jpc = "cacheGet"
    /\ \/ /\ jpc' = "save"
          /\ fromCache' = TRUE
          /\ resultFlag' \in BOOLEAN
       \/ /\ jpc' = "p20"
          /\ UNCHANGED <<fromCache, resultFlag>>
    /\ UNCHANGED <<events, forceRefresh, rowFlag, calls, dbVars>>
    /\ UNCHANGED otherThanJob

\* cacheManager.set never throws
JobCacheSet ==
    /\ jpc = "cacheSet"
    /\ jpc' = "p90"
    /\ UNCHANGED <<events, forceRefresh, fromCache, resultFlag, rowFlag, calls, dbVars>>
    /\ UNCHANGED otherThanJob

\* saveToDatabase, first write
JobSaveCreate ==
    /\ jpc = "save"
    /\ \/ /\ Exists(JobPath)
          /\ SaveCreateAnalysis(JobPath)
          /\ rowFlag' = resultFlag
          /\ jpc' = "saveUpdate"
       \/ /\ jpc' = Throw(jpc)
          /\ UNCHANGED <<analyses, rowFlag>>
    /\ UNCHANGED <<events, forceRefresh, fromCache, resultFlag, calls, projects>>
    /\ UNCHANGED otherThanJob

\* saveToDatabase, second write
JobSaveUpdate ==
    /\ jpc = "saveUpdate"
    /\ \/ /\ Exists(JobPath)
          /\ SaveUpdateProject(JobPath)
          /\ jpc' = "emitCompleted"
       \/ /\ jpc' = Throw(jpc)
          /\ UNCHANGED projects
    /\ UNCHANGED <<events, forceRefresh, fromCache, resultFlag, rowFlag, calls, analyses>>
    /\ UNCHANGED otherThanJob

JobEmitCompleted ==
    /\ jpc = "emitCompleted"
    /\ Emit("analysis:completed")
    /\ jpc' = "p100"
    /\ UNCHANGED <<forceRefresh, fromCache, resultFlag, rowFlag, calls, dbVars>>
    /\ UNCHANGED otherThanJob

\* the catch block: emitFailed, then updateProgress({status: 'failed'})
JobEmitFailed ==
    /\ jpc = "catch"
    /\ Emit("analysis:failed")
    /\ jpc' = "pFailed"
    /\ UNCHANGED <<forceRefresh, fromCache, resultFlag, rowFlag, calls, dbVars>>
    /\ UNCHANGED otherThanJob

NextJob ==
    \/ JobEmitStarted
    \/ JobUpdateProgress
    \/ JobStep
    \/ JobStat
    \/ JobCacheGet
    \/ JobCacheSet
    \/ JobSaveCreate
    \/ JobSaveUpdate
    \/ JobEmitCompleted
    \/ JobEmitFailed


(***************************************************************************)
(* RateLimiter.  Time is counted in ticks of a clock shared by the         *)
(* callers; a sleep(ms) timer resumes its caller at some time not before   *)
(* it is due.  Between two awaits a caller runs without interleaving.      *)
(***************************************************************************)
NoError == "none"
\* the errors fn can fail with: a rate-limit error (status 429, or a
\* message naming it), or any other error
Errors  == {"rateLimit", "other"}
Callers == {"c1", "c2"}

\* config.maxConcurrent, config.requestsPerMinute, config.maxRetries
maxConcurrent     == 1
requestsPerMinute == 2
maxRetries        == 2

\* the 60000 ms window of cleanOldTimestamps / getWaitTime, the 100 ms poll
\* of the concurrency gate and the 100 ms buffer of getWaitTime, in ticks
Window    == 3
PollDelay == 1
Buffer    == 1

\* the clock stops at MaxTime; a backoff sleeps 1..MaxBackoff ticks
MaxTime    == 5
MaxBackoff == 1

Max(a, b) == IF a >= b THEN a ELSE b

\* cleanOldTimestamps at time t
CleanOld(ts, t) == SelectSeq(ts, LAMBDA x : x > t - Window)

\* getWaitTime at time t, on the cleaned timestamps
GetWaitTime(ts, t) ==
    IF Len(ts) = 0 THEN 0
    ELSE IF Len(ts) >= requestsPerMinute
         THEN Max(0, Window - (t - ts[1]) + Buffer)
         ELSE 0

\* a canMakeRequest that compares with <= where the code compares with <
CanMakeRequestInclusive(ts) == Len(ts) <= requestsPerMinute

\* canMakeRequest, on the cleaned timestamps
CanMakeRequest(ts) == Len(ts) < requestsPerMinute

\* waitForSlot from its second loop on: canMakeRequest, then either the
\* reservation (no await in between) or sleep(getWaitTime())
RateGate(c) ==
    LET cleaned == CleanOld(requestTimestamps, now) IN
    IF CanMakeRequest(cleaned)
    THEN /\ currentConcurrent' = currentConcurrent + 1
         /\ requestTimestamps' = Append(cleaned, now)
         /\ reservations' = Append(reservations, now)
         /\ rpc' = [rpc EXCEPT ![c] = "running"]
         /\ UNCHANGED wake
    ELSE /\ requestTimestamps' = cleaned
         /\ rpc' = [rpc EXCEPT ![c] = "sleepB"]
         /\ wake' = [wake EXCEPT ![c] = now + GetWaitTime(cleaned, now)]
         /\ UNCHANGED <<currentConcurrent, reservations>>

\* waitForSlot from its start: the concurrency loop, then the rate loop
WaitForSlot(c) ==
    IF currentConcurrent >= maxConcurrent
    THEN /\ rpc' = [rpc EXCEPT ![c] = "sleepA"]
         /\ wake' = [wake EXCEPT ![c] = now + PollDelay]
         /\ UNCHANGED <<requestTimestamps, currentConcurrent, reservations>>
    ELSE RateGate(c)

\* the head of execute's loop: while (attempt < maxRetries) waitForSlot()
LoopHead(c, att) ==
    IF att < maxRetries
    THEN WaitForSlot(c)
    ELSE /\ rpc' = [rpc EXCEPT ![c] = "threw"]
         /\ UNCHANGED <<requestTimestamps, currentConcurrent, reservations, wake>>

\* a releaseSlot that gives nothing back
ReleaseSlotLeaks == currentConcurrent' = currentConcurrent

\* releaseSlot
ReleaseSlot == currentConcurrent' = Max(0, currentConcurrent - 1)

\* a call of execute(fn)
Execute(c) ==
    /\ rpc[c] \in {"idle", "done", "threw"}
    /\ attempt' = [attempt EXCEPT ![c] = 0]
    /\ lastError' = [lastError EXCEPT ![c] = NoError]
    /\ raised' = [raised EXCEPT ![c] = NoError]
    /\ LoopHead(c, 0)
    /\ UNCHANGED now
    /\ UNCHANGED otherThanRL

\* the 100 ms poll of the concurrency loop is over
WakeConcurrent(c) ==
    /\ rpc[c] = "sleepA"
    /\ now >= wake[c]
    /\ WaitForSlot(c)
    /\ UNCHANGED <<now, attempt, lastError, raised>>
    /\ UNCHANGED otherThanRL

\* the sleep of the rate loop is over: the rate loop tests again
WakeRate(c) ==
    /\ rpc[c] = "sleepB"
    /\ now >= wake[c]
    /\ RateGate(c)
    /\ UNCHANGED <<now, attempt, lastError, raised>>
    /\ UNCHANGED otherThanRL

\* fn resolves: finally releaseSlot, execute returns the result
FnReturn(c) ==
    /\ rpc[c] = "running"
    /\ ReleaseSlot
    /\ rpc' = [rpc EXCEPT ![c] = "done"]
    /\ raised' = [raised EXCEPT ![c] = NoError]
    /\ UNCHANGED <<now, requestTimestamps, wake, attempt, lastError, reservations>>
    /\ UNCHANGED otherThanRL

\* an execute whose catch block keeps the first error it saw
FnThrowFirstError(c, error) ==
    /\ rpc[c] = "running"
    /\ ReleaseSlot
    /\ raised' = [raised EXCEPT ![c] = error]
    /\ lastError' = [lastError EXCEPT ![c] = IF @ = NoError THEN error ELSE @]
    /\ attempt' = [attempt EXCEPT ![c] = @ + 1]
    /\ IF attempt[c] + 1 < maxRetries
       THEN \E d \in 1..MaxBackoff :
              /\ rpc' = [rpc EXCEPT ![c] = "backoff"]
              /\ wake' = [wake EXCEPT ![c] = now + d]
       ELSE /\ rpc' = [rpc EXCEPT ![c] = "threw"]
            /\ UNCHANGED wake
    /\ UNCHANGED <<now, requestTimestamps, reservations>>
    /\ UNCHANGED otherThanRL

\* fn rejects with an error of some kind: finally releaseSlot, then the
\* catch block of execute, which looks at the error only to choose the
\* backoff delay; with attempts left it calls onRetry and sleeps
FnThrow(c, error) ==
    /\ rpc[c] = "running"
    /\ ReleaseSlot
    /\ raised' = [raised EXCEPT ![c] = error]
    /\ lastError' = [lastError EXCEPT ![c] = error]
    /\ attempt' = [attempt EXCEPT ![c] = @ + 1]
    /\ IF attempt[c] + 1 < maxRetries
       THEN \E d \in 1..MaxBackoff :
              /\ rpc' = [rpc EXCEPT ![c] = "backoff"]
              /\ wake' = [wake EXCEPT ![c] = now + d]
       ELSE /\ rpc' = [rpc EXCEPT ![c] = "threw"]
            /\ UNCHANGED wake
    /\ UNCHANGED <<now, requestTimestamps, reservations>>
    /\ UNCHANGED otherThanRL

\* the backoff sleep is over: the next iteration of execute's loop
WakeBackoff(c) ==
    /\ rpc[c] = "backoff"
    /\ now >= wake[c]
    /\ LoopHead(c, attempt[c])
    /\ UNCHANGED <<now, attempt, lastError, raised>>
    /\ UNCHANGED otherThanRL

Tick ==
    /\ now < MaxTime
    /\ now' = now + 1
    /\ UNCHANGED <<requestTimestamps, currentConcurrent, rpc, wake, attempt, lastError,
                   raised, reservations>>
    /\ UNCHANGED otherThanRL

NextRL ==
    \/ \E c \in Callers : Execute(c)
    \/ \E c \in Callers : WakeConcurrent(c)
    \/ \E c \in Callers : WakeRate(c)
    \/ \E c \in Callers : FnReturn(c)
    \/ \E c \in Callers, error \in Errors : FnThrow(c, error)
    \/ \E c \in Callers : WakeBackoff(c)
    \/ Tick


(***************************************************************************)
(* Debouncer.  setTimeout registers a timer with the runtime (scheduled);  *)
(* clearTimeout removes it; a live timer runs its callback at some time    *)
(* not before it is due.  The Debouncer's callback (the file watcher's     *)
(* async handlers) does not throw.                                         *)
(***************************************************************************)
Keys     == {"k1", "k2"}
DataVals == {"d1", "d2"}
NoTimer  == -1
NoData   == "none"
NoCall   == [data |-> NoData, time |-> -1, coalesced |-> FALSE]
NoFired  == [data |-> NoData, time |-> -1, byTimer |-> FALSE]

\* the debounce delay (2000 ms by default), in ticks
delay == 2

\* a clearTimeout that leaves the timer live
ClearTimeoutNothing(sched, k) == sched

\* clearTimeout(this.timers.get(key))
ClearTimeout(sched, k) == {t \in sched : ~(t.key = k /\ t.due = timers[k])}

\* this.callback(event), as seen by an observer of the callback
Callback(k, byTimer) ==
    /\ fired' = [fired EXCEPT ![k] = @ + 1]
    /\ lastFired' = [lastFired EXCEPT ![k] =
                        [data |-> pendingEvents[k], time |-> now, byTimer |-> byTimer]]

\* debounce(key, data)
Debounce(k, d) ==
    /\ scheduled' = ClearTimeout(scheduled, k) \cup {[key |-> k, due |-> now + delay]}
    /\ pendingEvents' = [pendingEvents EXCEPT ![k] = d]
    /\ timers' = [timers EXCEPT ![k] = now + delay]
    /\ lastCall' = [lastCall EXCEPT ![k] =
                       [data |-> d, time |-> now, coalesced |-> pendingEvents[k] # NoData]]
    /\ fired' = [fired EXCEPT ![k] = 0]
    /\ UNCHANGED <<lastFired, now>>
    /\ UNCHANGED otherThanDeb

\* the function handed to setTimeout by debounce runs
TimerFire(t) ==
    /\ t \in scheduled
    /\ now >= t.due
    /\ scheduled' = scheduled \ {t}
    /\ IF pendingEvents[t.key] # NoData
       THEN /\ Callback(t.key, TRUE)
            /\ pendingEvents' = [pendingEvents EXCEPT ![t.key] = NoData]
            /\ timers' = [timers EXCEPT ![t.key] = NoTimer]
       ELSE UNCHANGED <<fired, lastFired, pendingEvents, timers>>
    /\ UNCHANGED <<lastCall, now>>
    /\ UNCHANGED otherThanDeb

\* a flush that invokes the callback and leaves the timer and the pending event
FlushKeysCallbackOnly(ks) ==
    /\ fired' = [k \in Keys |->
                    IF k \in ks /\ pendingEvents[k] # NoData THEN fired[k] + 1 ELSE fired[k]]
    /\ lastFired' = [k \in Keys |->
                    IF k \in ks /\ pendingEvents[k] # NoData
                    THEN [data |-> pendingEvents[k], time |-> now, byTimer |-> FALSE]
                    ELSE lastFired[k]]
    /\ UNCHANGED <<scheduled, timers, pendingEvents, lastCall, now>>
    /\ UNCHANGED otherThanDeb

\* flush(key) for every key of ks
FlushKeys(ks) ==
    /\ scheduled' = {t \in scheduled : ~(t.key \in ks /\ t.due = timers[t.key])}
    /\ timers' = [k \in Keys |-> IF k \in ks THEN NoTimer ELSE timers[k]]
    /\ pendingEvents' = [k \in Keys |-> IF k \in ks THEN NoData ELSE pendingEvents[k]]
    /\ fired' = [k \in Keys |->
                    IF k \in ks /\ pendingEvents[k] # NoData THEN fired[k] + 1 ELSE fired[k]]
    /\ lastFired' = [k \in Keys |->
                    IF k \in ks /\ pendingEvents[k] # NoData
                    THEN [data |-> pendingEvents[k], time |-> now, byTimer |-> FALSE]
                    ELSE lastFired[k]]
    /\ UNCHANGED <<lastCall, now>>
    /\ UNCHANGED otherThanDeb

Flush(k) == FlushKeys({k})

\* flushAll: flush(key) for every key of pendingEvents
FlushAll == FlushKeys({k \in Keys : pendingEvents[k] # NoData})

\* a cancel that forgets the timer handles and leaves the timers and the
\* pending events
CancelKeysHandlesOnly(ks) ==
    /\ timers' = [k \in Keys |-> IF k \in ks THEN NoTimer ELSE timers[k]]
    /\ lastCall' = [k \in Keys |->
                    IF k \in ks /\ pendingEvents[k] # NoData THEN NoCall ELSE lastCall[k]]
    /\ UNCHANGED <<scheduled, pendingEvents, fired, lastFired, now>>
    /\ UNCHANGED otherThanDeb

\* cancel(key) for every key of ks
CancelKeys(ks) ==
    /\ scheduled' = {t \in scheduled : ~(t.key \in ks /\ t.due = timers[t.key])}
    /\ timers' = [k \in Keys |-> IF k \in ks THEN NoTimer ELSE timers[k]]
    /\ pendingEvents' = [k \in Keys |-> IF k \in ks THEN NoData ELSE pendingEvents[k]]
    /\ lastCall' = [k \in Keys |->
                    IF k \in ks /\ pendingEvents[k] # NoData THEN NoCall ELSE lastCall[k]]
    /\ UNCHANGED <<fired, lastFired, now>>
    /\ UNCHANGED otherThanDeb

Cancel(k) == CancelKeys({k})

\* cancelAll: every timer of this.timers cleared, both maps cleared
CancelAll == CancelKeys(Keys)

DebTick ==
    /\ now < MaxTime
    /\ now' = now + 1
    /\ UNCHANGED <<timers, pendingEvents, scheduled, lastCall, fired, lastFired>>
    /\ UNCHANGED otherThanDeb

NextDeb ==
    \/ \E k \in Keys, d \in DataVals : Debounce(k, d)
    \/ \E t \in scheduled : TimerFire(t)
    \/ \E k \in Keys : Flush(k)
    \/ FlushAll
    \/ \E k \in Keys : Cancel(k)
    \/ CancelAll
    \/ DebTick


(***************************************************************************)
(* RedisPublisher.  Events are numbered in the order in which they are     *)
(* submitted to publishProjectAdded / publishProjectRemoved.  The calls of *)
(* client.publish are settled by the Redis client in call order.  The      *)
(* 'connect', 'close' and 'error' handlers run between the awaits of       *)
(* publish and flushQueue, never inside their synchronous parts.           *)
(***************************************************************************)
\* the number of events submitted to the publisher
MaxEvents == 3

\* RedisPublisher.maxQueueSize, which is 1000, scaled to the model
maxQueueSize == 2

SeqToSet(q) == {q[i] : i \in 1..Len(q)}

\* a queueEvent that drops the oldest event only when the outbox is over its size
QueueEventLate(q, e) ==
    IF Len(q) > maxQueueSize THEN Append(Tail(q), e) ELSE Append(q, e)

\* queueEvent(event), on the outbox q
QueueEvent(q, e) ==
    IF Len(q) >= maxQueueSize THEN Append(Tail(q), e) ELSE Append(q, e)

\* the events queueEvent(e) drops from the outbox q
Dropped(q, e) ==
    IF Len(q) >= maxQueueSize /\ Len(q) > 0 THEN {Head(q)} ELSE {}

\* queueEvent for each event of es, in order
RECURSIVE QueueAll(_, _)
QueueAll(q, es) ==
    IF es = <<>> THEN q ELSE QueueAll(QueueEvent(q, Head(es)), Tail(es))

RECURSIVE DroppedAll(_, _)
DroppedAll(q, es) ==
    IF es = <<>> THEN {}
    ELSE Dropped(q, Head(es)) \cup DroppedAll(QueueEvent(q, Head(es)), Tail(es))

\* es appended to the record of first queueings
RECURSIVE Noted(_, _)
Noted(order, es) ==
    IF es = <<>> THEN order
    ELSE Noted(IF Head(es) \in SeqToSet(order) THEN order ELSE Append(order, Head(es)),
               Tail(es))

\* the events waiting in flushQueue runs
Waiting == UNION {SeqToSet(inflight[i].rest) : i \in 1..Len(inflight)}

\* the events es are handed to queueEvent, one after the other
Enqueue(es) ==
    /\ eventQueue' = QueueAll(eventQueue, es)
    /\ dropped' = dropped \cup DroppedAll(eventQueue, es)
    /\ queuedLog' = queuedLog \o es
    /\ queueOrder' = Noted(queueOrder, es)

\* publish(channel, event) submitted by the file watcher
Publish ==
    /\ nextEvent <= MaxEvents
    /\ nextEvent' = nextEvent + 1
    /\ behind' = [behind EXCEPT ![nextEvent] = Waiting]
    /\ IF ~isConnected
       THEN /\ Enqueue(<<nextEvent>>)
            /\ UNCHANGED inflight
       ELSE /\ inflight' = Append(inflight, [ev |-> nextEvent, rest |-> <<>>])
            /\ UNCHANGED <<eventQueue, dropped, queuedLog, queueOrder>>
    /\ UNCHANGED <<isConnected, published>>
    /\ UNCHANGED otherThanPub

\* flushQueue after the await of one publish: the loop goes on with the
\* events left; publish queues them while the client is not connected
\* (no await), and hands the next to client.publish when it is
FlushRest(infl, rest) ==
    IF rest = <<>>
    THEN /\ inflight' = infl
         /\ UNCHANGED <<eventQueue, dropped, queuedLog, queueOrder>>
    ELSE IF isConnected
         THEN /\ inflight' = Append(infl, [ev |-> Head(rest), rest |-> Tail(rest)])
              /\ UNCHANGED <<eventQueue, dropped, queuedLog, queueOrder>>
         ELSE /\ inflight' = infl
              /\ Enqueue(rest)

\* the oldest call of client.publish resolves: the event is on the channel
PublishResolves ==
    /\ inflight # <<>>
    /\ published' = Append(published, Head(inflight).ev)
    /\ FlushRest(Tail(inflight), Head(inflight).rest)
    /\ UNCHANGED <<isConnected, nextEvent, behind>>
    /\ UNCHANGED otherThanPub

\* the oldest call of client.publish rejects: the catch block of publish
\* queues the event, and a flushQueue run awaiting it goes on
PublishRejects ==
    /\ inflight # <<>>
    /\ LET e    == Head(inflight).ev
           rest == Head(inflight).rest
       IN  IF rest # <<>> /\ isConnected
           THEN /\ inflight' = Append(Tail(inflight), [ev |-> Head(rest), rest |-> Tail(rest)])
                /\ Enqueue(<<e>>)
           ELSE /\ inflight' = Tail(inflight)
                /\ Enqueue(<<e>> \o rest)
    /\ UNCHANGED <<isConnected, published, nextEvent, behind>>
    /\ UNCHANGED otherThanPub

\* client.on('connect'): isConnected = true, then flushQueue up to its first await
Connect ==
    /\ ~isConnected
    /\ isConnected' = TRUE
    /\ IF eventQueue = <<>>
       THEN UNCHANGED <<eventQueue, inflight, queuedLog>>
       ELSE /\ eventQueue' = <<>>
            /\ queuedLog' = <<>>
            /\ inflight' = Append(inflight, [ev |-> Head(eventQueue), rest |-> Tail(eventQueue)])
    /\ UNCHANGED <<published, nextEvent, dropped, queueOrder, behind>>
    /\ UNCHANGED otherThanPub

\* client.on('close') / client.on('error')
Disconnect ==
    /\ isConnected
    /\ isConnected' = FALSE
    /\ UNCHANGED <<eventQueue, inflight, published, nextEvent, queuedLog, dropped,
                   queueOrder, behind>>
    /\ UNCHANGED otherThanPub

NextPub ==
    \/ Publish
    \/ PublishResolves
    \/ PublishRejects
    \/ Connect
    \/ Disconnect


(***************************************************************************)
(* The writers of the projects table.  Every Prisma call is one step; the  *)
(* unique index on projects.path makes project.create fail (P2002) when a  *)
(* row of the path exists.  No operation reachable from the routes or the  *)
(* subscriber deletes a project or an analysis.                            *)
(***************************************************************************)
Handlers == {"h1", "h2"}
NoPath   == "none"
NoMeta   == "none"

\* tx.project.create in DatabaseService.createProject
CreateRow(p, m) ==
    projects' = [projects EXCEPT ![p] = Row("DISCOVERED", TRUE, FALSE, m)]

\* ProjectRepository.updateProjectStatus(id, status), no analyzedAt given
UpdateProjectStatus(p, st) ==
    projects' = [projects EXCEPT ![p] = [@ EXCEPT !.status = st]]

\* handleProjectAdded up to createProjectSafe: fs.access succeeds,
\* extractMetadata returns m
HStart(h, p, m) ==
    /\ hpc[h] = "idle"
    /\ hpc' = [hpc EXCEPT ![h] = "create"]
    /\ hkind' = [hkind EXCEPT ![h] = "subscriber"]
    /\ hpath' = [hpath EXCEPT ![h] = p]
    /\ hmeta' = [hmeta EXCEPT ![h] = m]
    /\ UNCHANGED <<hcreated, hfailed, hremoved, hmade, dbVars>>
    /\ UNCHANGED otherThanHandlers

\* the scan's loop body up to findProjectByPath: isValidProject holds,
\* extractMetadata returns m
ScanStart(h, p, m) ==
    /\ hpc[h] = "idle"
    /\ hpc' = [hpc EXCEPT ![h] = "scanFind"]
    /\ hkind' = [hkind EXCEPT ![h] = "scan"]
    /\ hpath' = [hpath EXCEPT ![h] = p]
    /\ hmeta' = [hmeta EXCEPT ![h] = m]
    /\ UNCHANGED <<hcreated, hfailed, hremoved, hmade, dbVars>>
    /\ UNCHANGED otherThanHandlers

\* scan: projectRepo.findProjectByPath(dirPath)
ScanFind(h) ==
    /\ hpc[h] = "scanFind"
    /\ hpc' = [hpc EXCEPT ![h] = IF Exists(hpath[h]) THEN "scanUpdate" ELSE "create"]
    /\ UNCHANGED <<hkind, hpath, hmeta, hcreated, hfailed, hremoved, hmade, dbVars>>
    /\ UNCHANGED otherThanHandlers

\* scan: projectRepo.updateProject(existing.id, {...metadata, isActive: true})
ScanUpdate(h) ==
    /\ hpc[h] = "scanUpdate"
    /\ projects' = [projects EXCEPT ![hpath[h]] =
                       IF @ = NoRow THEN @ ELSE [@ EXCEPT !.meta = hmeta[h], !.isActive = TRUE]]
    /\ hpc' = [hpc EXCEPT ![h] = "idle"]
    /\ hpath' = [hpath EXCEPT ![h] = NoPath]
    /\ hmeta' = [hmeta EXCEPT ![h] = NoMeta]
    /\ hremoved' = [hremoved EXCEPT ![h] = FALSE]
    /\ hkind' = [hkind EXCEPT ![h] = "subscriber"]
    /\ UNCHANGED <<hcreated, hfailed, hmade, analyses>>
    /\ UNCHANGED otherThanHandlers

\* scan with resetDeleted: project.updateMany({where: {isActive: false}, ...})
ScanResetDeleted ==
    /\ projects' = [p \in Paths |->
                      IF projects[p] # NoRow /\ ~projects[p].isActive
                      THEN [projects[p] EXCEPT !.isActive = TRUE, !.status = "DISCOVERED"]
                      ELSE projects[p]]
    /\ UNCHANGED <<hpc, hkind, hpath, hmeta, hcreated, hfailed, hremoved, hmade, analyses>>
    /\ UNCHANGED otherThanHandlers

\* createProjectSafe -> createProject: tx.project.create
HCreate(h) ==
    /\ hpc[h] = "create"
    /\ IF ~Exists(hpath[h])
       THEN /\ CreateRow(hpath[h], hmeta[h])
            /\ hcreated' = [hcreated EXCEPT ![h] = TRUE]
            /\ hmade' = [hmade EXCEPT ![h] = TRUE]
            /\ hpc' = [hpc EXCEPT ![h] = "publish"]
       ELSE /\ hpc' = [hpc EXCEPT ![h] = "reread"]
            /\ UNCHANGED <<projects, hcreated, hmade>>
    /\ UNCHANGED <<hkind, hpath, hmeta, hfailed, hremoved, analyses>>
    /\ UNCHANGED otherThanHandlers

\* createProject's catch of P2002: findProjectByPath; the existing row is
\* createProject's return value, so createProjectSafe returns
\* {project: existing, created: true}.  (Were the row gone, the error would
\* reach createProjectSafe's catch; no modelled operation deletes a row.)
HReread(h) ==
    /\ hpc[h] = "reread"
    /\ IF Exists(hpath[h])
       THEN /\ hcreated' = [hcreated EXCEPT ![h] = TRUE]
            /\ UNCHANGED hfailed
       ELSE /\ hfailed' = [hfailed EXCEPT ![h] = TRUE]
            /\ UNCHANGED hcreated
    /\ hpc' = [hpc EXCEPT ![h] = "publish"]
    /\ UNCHANGED <<hkind, hpath, hmeta, hremoved, hmade, dbVars>>
    /\ UNCHANGED otherThanHandlers

\* the event handleProjectAdded publishes to the clients: by result.created
ClientEvent(h) == IF hcreated[h] THEN "project:added" ELSE "project:updated"

\* the end of the handling: the subscriber publishes ClientEvent(h), the
\* scan counts created or updated
HPublish(h) ==
    /\ hpc[h] = "publish"
    /\ hpc' = [hpc EXCEPT ![h] = "idle"]
    /\ hpath' = [hpath EXCEPT ![h] = NoPath]
    /\ hmeta' = [hmeta EXCEPT ![h] = NoMeta]
    /\ hcreated' = [hcreated EXCEPT ![h] = FALSE]
    /\ hfailed' = [hfailed EXCEPT ![h] = FALSE]
    /\ hremoved' = [hremoved EXCEPT ![h] = FALSE]
    /\ hkind' = [hkind EXCEPT ![h] = "subscriber"]
    /\ hmade' = [hmade EXCEPT ![h] = FALSE]
    /\ UNCHANGED dbVars
    /\ UNCHANGED otherThanHandlers

\* handleProjectRemoved -> markProjectRemoved: the row, when there is one,
\* is archived; when there is none the handler logs and does nothing
MarkProjectRemoved(p) ==
    /\ projects' = [projects EXCEPT ![p] =
                       IF @ = NoRow THEN @ ELSE [@ EXCEPT !.isActive = FALSE, !.status = "ARCHIVED"]]
    /\ hremoved' = [h \in Handlers |-> hremoved[h] \/ hpath[h] = p]
    /\ UNCHANGED <<hpc, hkind, hpath, hmeta, hcreated, hfailed, hmade, analyses>>
    /\ UNCHANGED otherThanHandlers

\* PUT /projects/:id with body.status: 'active' -> DISCOVERED,
\* 'archived' | 'removed' -> ARCHIVED
PutStatus(p, st) ==
    /\ Exists(p)
    /\ st \in {"DISCOVERED", "ARCHIVED"}
    /\ UpdateProjectStatus(p, st)
    /\ UNCHANGED <<hpc, hkind, hpath, hmeta, hcreated, hfailed, hremoved, hmade, analyses>>
    /\ UNCHANGED otherThanHandlers

\* DELETE /projects/:id
DeleteProject(p) ==
    /\ Exists(p)
    /\ UpdateProjectStatus(p, "ARCHIVED")
    /\ UNCHANGED <<hpc, hkind, hpath, hmeta, hcreated, hfailed, hremoved, hmade, analyses>>
    /\ UNCHANGED otherThanHandlers

\* what extractMetadata returns to a handler: the two handlers read the
\* directory at different times and extract different metadata, so that a
\* row shows whose write it holds
MetaOf(h) == IF h = "h1" THEN "m1" ELSE "m2"

NextHandlers ==
    \/ \E h \in Handlers, p \in Paths : HStart(h, p, MetaOf(h))
    \/ \E h \in Handlers, p \in Paths : ScanStart(h, p, MetaOf(h))
    \/ \E h \in Handlers : ScanFind(h)
    \/ \E h \in Handlers : ScanUpdate(h)
    \/ ScanResetDeleted
    \/ \E h \in Handlers : HCreate(h)
    \/ \E h \in Handlers : HReread(h)
    \/ \E h \in Handlers : HPublish(h)
    \/ \E p \in Paths : MarkProjectRemoved(p)
    \/ \E p \in Paths, st \in {"DISCOVERED", "ARCHIVED"} : PutStatus(p, st)
    \/ \E p \in Paths : DeleteProject(p)


\* a bound on the jobs waiting in the analysis queue
MaxJobs == 1

\* POST /projects/:id/analyze up to the enqueue: findProjectById, then
\* updateProjectStatus(id, ANALYZING)
AnalyzeSetStatus(p) ==
    /\ apc = "idle"
    /\ Exists(p)
    /\ UpdateProjectStatus(p, "ANALYZING")
    /\ apc' = "enqueue"
    /\ apath' = p
    /\ aprev' = projects[p].status
    /\ UNCHANGED <<analyses, jobs, wpc, wpath, resetIds>>
    /\ UNCHANGED otherThanOps

\* POST /projects/:id/analyze: addAnalysisJob, and the catch block that
\* puts the status back to DISCOVERED when it throws
AnalyzeEnqueue ==
    /\ apc = "enqueue"
    /\ \/ /\ Cardinality(jobs) < MaxJobs \/ apath \in jobs
          /\ jobs' = jobs \cup {apath}
          /\ UNCHANGED projects
       \/ /\ UpdateProjectStatus(apath, "DISCOVERED")
          /\ UNCHANGED jobs
    /\ apc' = "idle"
    /\ apath' = NoPath
    /\ aprev' = "none"
    /\ UNCHANGED <<analyses, wpc, wpath, resetIds>>
    /\ UNCHANGED otherThanOps

\* POST /projects/reset-stuck: project.updateMany({where: {status: ANALYZING}, ...})
ResetStuckUpdate ==
    /\ apc = "idle"
    /\ projects' = [p \in Paths |->
                      IF projects[p] # NoRow /\ projects[p].status = "ANALYZING"
                      THEN [projects[p] EXCEPT !.status = "DISCOVERED", !.analyzedAt = FALSE]
                      ELSE projects[p]]
    /\ apc' = "resetClear"
    /\ resetIds' = {p \in Paths : projects[p] # NoRow /\ projects[p].status = "ANALYZING"}
    /\ UNCHANGED <<apath, aprev, analyses, jobs, wpc, wpath>>
    /\ UNCHANGED otherThanOps

\* POST /projects/reset-stuck: clearAllJobs removes the waiting jobs, or
\* throws (the route goes on all the same)
ResetStuckClear ==
    /\ apc = "resetClear"
    /\ \/ jobs' = {}
       \/ UNCHANGED jobs
    /\ apc' = "idle"
    /\ resetIds' = {}
    /\ UNCHANGED <<apath, aprev, dbVars, wpc, wpath>>
    /\ UNCHANGED otherThanOps

\* the worker takes a waiting job: processJob begins
WorkerPick(p) ==
    /\ wpc = "idle"
    /\ p \in jobs
    /\ jobs' = jobs \ {p}
    /\ wpc' = "run"
    /\ wpath' = p
    /\ UNCHANGED <<apc, apath, aprev, resetIds, dbVars>>
    /\ UNCHANGED otherThanOps

\* processJob reaches saveToDatabase: projectAnalysis.create
WorkerSaveCreate ==
    /\ wpc = "run"
    /\ analyses[wpath] < MaxAnalyses
    /\ SaveCreateAnalysis(wpath)
    /\ wpc' = "saveUpdate"
    /\ UNCHANGED <<apc, apath, aprev, resetIds, jobs, wpath, projects>>
    /\ UNCHANGED otherThanOps

\* saveToDatabase: project.update
WorkerSaveUpdate ==
    /\ wpc = "saveUpdate"
    /\ SaveUpdateProject(wpath)
    /\ wpc' = "idle"
    /\ wpath' = NoPath
    /\ UNCHANGED <<apc, apath, aprev, resetIds, jobs, analyses>>
    /\ UNCHANGED otherThanOps

\* processJob throws, before saveToDatabase or between its two writes: the
\* catch block publishes analysis:failed and writes nothing to the tables
WorkerFail ==
    /\ wpc \in {"run", "saveUpdate"}
    /\ wpc' = "idle"
    /\ wpath' = NoPath
    /\ UNCHANGED <<apc, apath, aprev, resetIds, jobs, dbVars>>
    /\ UNCHANGED otherThanOps

NextOps ==
    \/ \E p \in Paths : AnalyzeSetStatus(p)
    \/ AnalyzeEnqueue
    \/ ResetStuckUpdate
    \/ ResetStuckClear
    \/ \E p \in Paths : WorkerPick(p)
    \/ WorkerSaveCreate
    \/ WorkerSaveUpdate
    \/ WorkerFail

NextDb ==
    \/ NextHandlers
    \/ NextOps

(***************************************************************************)
(* The analysis queue, for the jobs of one project.  A job is added by the *)
(* backend's analyze route or by the worker's QueueManager.addJob, with    *)
(* the defaultJobOptions of the Queue object that adds it.  BullMQ hands a *)
(* waiting job to the processor while fewer than `concurrency` jobs are    *)
(* active, and puts a job whose processor threw back to waiting until      *)
(* attemptsMade reaches the job's attempts.  The jobId is                  *)
(* analysis-<projectId>-<Date.now()>: an add with the id of a job that     *)
(* BullMQ still holds adds nothing.                                        *)
(***************************************************************************)
\* the jobIds, by the millisecond of their enqueue
MaxEnqueues == 3
JobIds == 1..MaxEnqueues

\* the worker's concurrency, 5 by default, scaled to the model
Concurrency == 2

\* defaultJobOptions.attempts of the backend's queue client and of the
\* worker's QueueManager
BackendAttempts == 3
WorkerAttempts  == 1

NoJob == [state |-> "none", force |-> FALSE, attempts |-> 0, handed |-> 0]

Active == {id \in JobIds : qjobs[id].state \in {"run", "saved"}}

\* queue.add with jobId id: a new waiting job, unless the id is taken or a
\* job of a later millisecond exists
QueueAdd(id, force, attempts) ==
    /\ \A j \in JobIds : j > id => qjobs[j] = NoJob
    /\ qjobs' = IF qjobs[id] = NoJob
                THEN [qjobs EXCEPT ![id] = [state |-> "waiting", force |-> force,
                                            attempts |-> attempts, handed |-> 0]]
                ELSE qjobs
    /\ UNCHANGED <<qcache, qrows, qcompleted>>

\* POST /projects/:id/analyze: without force, 409 when the latest analysis
\* is less than an hour old (recent); otherwise addAnalysisJob
AnalyzeRoute(id, force, recent) ==
    /\ recent => qrows # <<>>
    /\ IF ~force /\ recent
       THEN UNCHANGED qVars
       ELSE QueueAdd(id, force, BackendAttempts)
    /\ UNCHANGED otherThanQueue

\* QueueManager.addJob
AddJob(id, force) ==
    /\ QueueAdd(id, force, WorkerAttempts)
    /\ UNCHANGED otherThanQueue

\* the Worker hands a waiting job to processJob
QPick(id) ==
    /\ qjobs[id].state = "waiting"
    /\ Cardinality(Active) < Concurrency
    /\ qjobs' = [qjobs EXCEPT ![id] = [@ EXCEPT !.state = "run", !.handed = @ + 1]]
    /\ UNCHANGED <<qcache, qrows, qcompleted>>
    /\ UNCHANGED otherThanQueue

\* processJob up to the end of saveToDatabase: with forceRefresh unset and
\* an entry found in the cache the cached result is saved; otherwise (also
\* when the entry was written after the job had looked) the project is
\* analyzed, the result cached and saved
QSave(id) ==
    /\ qjobs[id].state = "run"
    /\ \E hit \in BOOLEAN :
          /\ hit => (~qjobs[id].force /\ qcache)
          /\ qrows' = Append(qrows, [job |-> id, fromCache |-> hit])
    /\ qcache' = TRUE
    /\ qjobs' = [qjobs EXCEPT ![id] = [@ EXCEPT !.state = "saved"]]
    /\ UNCHANGED qcompleted
    /\ UNCHANGED otherThanQueue

\* processJob from emitCompleted to its return
QEmitCompleted(id) ==
    /\ qjobs[id].state = "saved"
    /\ qcompleted' = Append(qcompleted, id)
    /\ qjobs' = [qjobs EXCEPT ![id] = [@ EXCEPT !.state = "completed"]]
    /\ UNCHANGED <<qcache, qrows>>
    /\ UNCHANGED otherThanQueue

\* processJob throws before saveToDatabase: BullMQ retries the job while
\* attemptsMade < attempts, and fails it otherwise
QFail(id) ==
    /\ qjobs[id].state = "run"
    /\ qjobs' = [qjobs EXCEPT ![id].state =
                    IF qjobs[id].handed < qjobs[id].attempts THEN "waiting" ELSE "failed"]
    /\ UNCHANGED <<qcache, qrows, qcompleted>>
    /\ UNCHANGED otherThanQueue

NextQueue ==
    \/ \E id \in JobIds, force \in BOOLEAN, recent \in BOOLEAN : AnalyzeRoute(id, force, recent)
    \/ \E id \in JobIds, force \in BOOLEAN : AddJob(id, force)
    \/ \E id \in JobIds : QPick(id)
    \/ \E id \in JobIds : QSave(id)
    \/ \E id \in JobIds : QEmitCompleted(id)
    \/ \E id \in JobIds : QFail(id)

(***************************************************************************)
(* CacheManager: get and set over the Redis client.  Redis is taken to be  *)
(* reachable, so the catch blocks of get and set are not entered.          *)
(***************************************************************************)
CachePaths == {"p1", "p2"}
Mtimes     == {1, 2}
ttl        == 1                                \* this.ttl, in ticks
MaxClock   == 2
NoSet      == [key |-> <<>>, value |-> [present |-> FALSE]]
NoEntry    == [present |-> FALSE]
Pending    == [present |-> FALSE, pending |-> TRUE]

\* sha256 of "path:lastModified.toISOString()" under the prefix: two calls
\* get the same key exactly when the string hashed is the same (sha256 is
\* taken to be free of collisions), and the ISO string of a Date names its
\* millisecond
generateCacheKey(projectPath, lastModified) == <<"analysis:", projectPath, lastModified>>

CacheKeys == {generateCacheKey(p, m) : p \in CachePaths, m \in Mtimes}

\* Redis GET: a key whose time to live has run out is gone (a key is expired
\* once the clock is past its expire time)
ClientGet(key) ==
    IF cstore[key] = NoEntry \/ cnow > cstore[key].expire
    THEN NoEntry
    ELSE cstore[key].value

\* set, up to the call of client.setex: the CachedAnalysis is built with
\* expiresAt = Date.now() + ttl
SetBegin(projectPath, lastModified) ==
    /\ spc = "idle"
    /\ spc' = "setex"
    /\ sarg' = [key   |-> generateCacheKey(projectPath, lastModified),
                value |-> [present      |-> TRUE,
                           projectHash  |-> projectPath,
                           lastModified |-> lastModified,
                           expiresAt    |-> cnow + ttl]]
    /\ UNCHANGED <<cnow, cstore, gpc, garg, gread, gret>>
    /\ UNCHANGED otherThanCache

\* Redis SETEX: the value is stored with a time to live of ttl from the
\* moment Redis runs the command
SetStore ==
    /\ spc = "setex"
    /\ cstore' = [cstore EXCEPT ![sarg.key] = [value |-> sarg.value, expire |-> cnow + ttl]]
    /\ spc' = "idle"
    /\ sarg' = NoSet
    /\ UNCHANGED <<cnow, gpc, garg, gread, gret>>
    /\ UNCHANGED otherThanCache

\* get, up to the call of client.get
GetBegin(projectPath, lastModified) ==
    /\ gpc = "idle"
    /\ gpc' = "get"
    /\ garg' = [path |-> projectPath, lastModified |-> lastModified, at |-> cnow]
    /\ gret' = Pending
    /\ UNCHANGED <<cnow, cstore, spc, sarg, gread>>
    /\ UNCHANGED otherThanCache

\* Redis runs the GET
GetRead ==
    /\ gpc = "get"
    /\ gread' = ClientGet(generateCacheKey(garg.path, garg.lastModified))
    /\ gpc' = "check"
    /\ UNCHANGED <<cnow, cstore, spc, sarg, garg, gret>>
    /\ UNCHANGED otherThanCache

\* get resumes with the reply: nothing cached is a miss; an entry whose
\* expiresAt is before new Date() is to be deleted; any other is returned
GetCheck ==
    /\ gpc = "check"
    /\ IF gread = NoEntry
       THEN /\ gret' = NoEntry
            /\ gpc' = "idle"
            /\ UNCHANGED gread
       ELSE IF gread.expiresAt < cnow
            THEN /\ gpc' = "del"
                 /\ UNCHANGED <<gret, gread>>
            ELSE /\ gret' = gread
                 /\ gpc' = "idle"
                 /\ gread' = NoEntry
    /\ UNCHANGED <<cnow, cstore, spc, sarg, garg>>
    /\ UNCHANGED otherThanCache

\* client.del of the expired entry's key, and the return of null
GetDel ==
    /\ gpc = "del"
    /\ cstore' = [cstore EXCEPT ![generateCacheKey(garg.path, garg.lastModified)] = NoEntry]
    /\ gret' = NoEntry
    /\ gread' = NoEntry
    /\ gpc' = "idle"
    /\ UNCHANGED <<cnow, spc, sarg, garg>>
    /\ UNCHANGED otherThanCache

CacheTick ==
    /\ cnow < MaxClock
    /\ cnow' = cnow + 1
    /\ UNCHANGED <<cstore, spc, sarg, gpc, garg, gread, gret>>
    /\ UNCHANGED otherThanCache

NextCache ==
    \/ \E p \in CachePaths, m \in Mtimes : SetBegin(p, m)
    \/ SetStore
    \/ \E p \in CachePaths, m \in Mtimes : GetBegin(p, m)
    \/ GetRead
    \/ GetCheck
    \/ GetDel
    \/ CacheTick

(***************************************************************************)
(* FileWatcher: the debounced addDir / unlinkDir events, their handlers    *)
(* and stop().  The Redis connection is up until stop() quits it, and      *)
(* extractMetadata does not throw.  A command handed to the client before  *)
(* quit is sent before it; from the call of quit on publish reaches no     *)
(* subscriber: client.publish rejects, or isConnected is false, and the    *)
(* event goes to the outbox of a publisher that never connects again.      *)
(***************************************************************************)
WatchDirs == {"d1", "d2"}

\* the bus client has been told to quit
Quit == stpc \in {"quit", "stopped"}

\* redisPublisher.publish of an event of directory d
BusPublish(type, d) ==
    IF Quit THEN UNCHANGED wire ELSE wire' = wire \cup {<<type, d>>}

\* watcher.on('addDir'): addDebouncer.debounce; chokidar reports events
\* until watcher.close() is over
WatchAdd(d) ==
    /\ stpc \in {"running", "flushed"}
    /\ addPos[d] = "none"
    /\ addPos' = [addPos EXCEPT ![d] = "pending"]
    /\ UNCHANGED <<stpc, removePos, wire, flushedAdd, flushedRemove>>
    /\ UNCHANGED otherThanStop

\* watcher.on('unlinkDir'): removeDebouncer.debounce
WatchRemove(d) ==
    /\ stpc \in {"running", "flushed"}
    /\ removePos[d] = "none"
    /\ removePos' = [removePos EXCEPT ![d] = "pending"]
    /\ UNCHANGED <<stpc, addPos, wire, flushedAdd, flushedRemove>>
    /\ UNCHANGED otherThanStop

\* the add debouncer's timer fires: handleDebouncedAdd up to its await of
\* validateProject
AddTimerFires(d) ==
    /\ addPos[d] = "pending"
    /\ addPos' = [addPos EXCEPT ![d] = "validate"]
    /\ UNCHANGED <<stpc, removePos, wire, flushedAdd, flushedRemove>>
    /\ UNCHANGED otherThanStop

\* validateProject resolves: an invalid project ends the handler, a valid
\* one takes it to the await of extractMetadata
Validated(d) ==
    /\ addPos[d] = "validate"
    /\ \E isValid \in BOOLEAN :
          addPos' = [addPos EXCEPT ![d] = IF isValid THEN "extract" ELSE "invalid"]
    /\ UNCHANGED <<stpc, removePos, wire, flushedAdd, flushedRemove>>
    /\ UNCHANGED otherThanStop

\* extractMetadata resolves: publishProjectAdded
Extracted(d) ==
    /\ addPos[d] = "extract"
    /\ BusPublish("added", d)
    /\ addPos' = [addPos EXCEPT ![d] = IF Quit THEN "queued" ELSE "sent"]
    /\ UNCHANGED <<stpc, removePos, flushedAdd, flushedRemove>>
    /\ UNCHANGED otherThanStop

\* the remove debouncer's timer fires: handleDebouncedRemove, which reaches
\* publishProjectRemoved without an await
RemoveTimerFires(d) ==
    /\ removePos[d] = "pending"
    /\ BusPublish("removed", d)
    /\ removePos' = [removePos EXCEPT ![d] = IF Quit THEN "queued" ELSE "sent"]
    /\ UNCHANGED <<stpc, addPos, flushedAdd, flushedRemove>>
    /\ UNCHANGED otherThanStop

\* stop() up to its await of watcher.close(): flushAll of both debouncers
\* calls the handlers of the pending events, without awaiting them: the
\* add handlers run up to their await of validateProject, the remove
\* handlers up to client.publish
StopFlush ==
    /\ stpc = "running"
    /\ stpc' = "flushed"
    /\ flushedAdd' = {d \in WatchDirs : addPos[d] = "pending"}
    /\ flushedRemove' = {d \in WatchDirs : removePos[d] = "pending"}
    /\ addPos' = [d \in WatchDirs |-> IF addPos[d] = "pending" THEN "validate" ELSE addPos[d]]
    /\ removePos' = [d \in WatchDirs |-> IF removePos[d] = "pending" THEN "sent" ELSE removePos[d]]
    /\ wire' = wire \cup {<<"removed", d>> : d \in {e \in WatchDirs : removePos[e] = "pending"}}
    /\ UNCHANGED otherThanStop

\* watcher.close() resolves: destroy() of both debouncers cancels what is
\* pending in them, and redisPublisher.close() calls client.quit()
StopQuit ==
    /\ stpc = "flushed"
    /\ stpc' = "quit"
    /\ addPos' = [d \in WatchDirs |-> IF addPos[d] = "pending" THEN "cancelled" ELSE addPos[d]]
    /\ removePos' = [d \in WatchDirs |-> IF removePos[d] = "pending" THEN "cancelled" ELSE removePos[d]]
    /\ UNCHANGED <<wire, flushedAdd, flushedRemove>>
    /\ UNCHANGED otherThanStop

\* client.quit() resolves: isRunning = false, and stop() returns
StopReturns ==
    /\ stpc = "quit"
    /\ stpc' = "stopped"
    /\ UNCHANGED <<addPos, removePos, wire, flushedAdd, flushedRemove>>
    /\ UNCHANGED otherThanStop

NextStop ==
    \/ \E d \in WatchDirs : WatchAdd(d)
    \/ \E d \in WatchDirs : WatchRemove(d)
    \/ \E d \in WatchDirs : AddTimerFires(d)
    \/ \E d \in WatchDirs : Validated(d)
    \/ \E d \in WatchDirs : Extracted(d)
    \/ \E d \in WatchDirs : RemoveTimerFires(d)
    \/ StopFlush
    \/ StopQuit
    \/ StopReturns

(***************************************************************************)
(* FileWatcher: chokidar's addDir / unlinkDir notifications and the two    *)
(* debouncers.  addDebouncer and removeDebouncer are separate Debouncer    *)
(* objects, each with its own timers and pendingEvents, keyed by the       *)
(* directory's path; the watcher only calls debounce on them while it      *)
(* runs, so a key has a pending event exactly while it has a timer.        *)
(* Timers are punctual: a timer that is due runs before time goes on and   *)
(* before a later notification is handled.                                 *)
(***************************************************************************)
Kinds       == {"added", "removed"}
NoNote      == [kind |-> "none", time |-> -1]
MaxWatchTime == 4

Due == \E k \in Kinds, d \in WatchDirs : wtimers[<<k, d>>] # NoTimer /\ wtimers[<<k, d>>] <= wnow

\* watcher.on('addDir') / watcher.on('unlinkDir') for an immediate child:
\* debounce(dirPath, dirPath) on the debouncer of that kind only
Notify(k, d) ==
    /\ ~Due
    /\ wtimers' = [wtimers EXCEPT ![<<k, d>>] = wnow + delay]
    /\ notified' = [notified EXCEPT ![d] = [kind |-> k, time |-> wnow]]
    /\ delivered' = [delivered EXCEPT ![d] =
                        IF notified[d] # NoNote /\ wnow < notified[d].time + delay
                        THEN @ ELSE <<>>]
    /\ UNCHANGED wnow
    /\ UNCHANGED otherThanWatch

\* the timer of a debouncer runs: the callback (handleDebouncedAdd or
\* handleDebouncedRemove) is invoked with the pending event
WatchTimerFire(k, d) ==
    /\ wtimers[<<k, d>>] # NoTimer
    /\ wtimers[<<k, d>>] <= wnow
    /\ wtimers' = [wtimers EXCEPT ![<<k, d>>] = NoTimer]
    /\ delivered' = [delivered EXCEPT ![d] = Append(@, k)]
    /\ UNCHANGED <<wnow, notified>>
    /\ UNCHANGED otherThanWatch

WatchTick ==
    /\ ~Due
    /\ wnow < MaxWatchTime
    /\ wnow' = wnow + 1
    /\ UNCHANGED <<wtimers, notified, delivered>>
    /\ UNCHANGED otherThanWatch

NextWatch ==
    \/ \E k \in Kinds, d \in WatchDirs : Notify(k, d)
    \/ \E k \in Kinds, d \in WatchDirs : WatchTimerFire(k, d)
    \/ WatchTick

(***************************************************************************)
(* websocketPlugin: the connection set, broadcast and the keepalive ping.  *)
(* The bus events are numbered in the order in which the subscriber        *)
(* receives them, and every message on the channel parses.  A call of      *)
(* send or ping either returns or throws.                                  *)
(***************************************************************************)
Sockets  == {"s1", "s2"}
MaxBus   == 2
MaxPings == 1

\* a frame: the connected frame, bus event number ev, or a ping
Frame(kind, ev, ok) == [kind |-> kind, ev |-> ev, ok |-> ok]

\* the sockets of the set, open or not
RecipientsAll == clients

\* the sockets broadcast sends to: those of the set whose readyState is OPEN
Recipients == {s \in clients : readyState[s] = "open"}

\* fastify.get('/ws') handler: clients.add, setInterval, send of the
\* connected frame (a throw is logged), the listeners
WsConnect(s) ==
    /\ readyState[s] = "none"
    /\ clients' = clients \cup {s}
    /\ readyState' = [readyState EXCEPT ![s] = "open"]
    /\ pinging' = [pinging EXCEPT ![s] = TRUE]
    /\ \E ok \in BOOLEAN : frames' = [frames EXCEPT ![s] = Append(@, Frame("connected", 0, ok))]
    /\ UNCHANGED <<received, pings>>
    /\ UNCHANGED otherThanWs

\* subscriber.on('message'): broadcast(event); a send that throws is
\* logged and counted
Broadcast ==
    /\ received < MaxBus
    /\ received' = received + 1
    /\ \E oks \in [Sockets -> BOOLEAN] :
          frames' = [s \in Sockets |->
                        IF s \in Recipients
                        THEN Append(frames[s], Frame("event", received + 1, oks[s]))
                        ELSE frames[s]]
    /\ UNCHANGED <<clients, readyState, pinging, pings>>
    /\ UNCHANGED otherThanWs

\* the keepalive interval of a socket runs: ping an open socket, and clear
\* the interval when the ping throws or the socket is not open
Ping(s) ==
    /\ pinging[s]
    /\ pings < MaxPings
    /\ pings' = pings + 1
    /\ IF readyState[s] = "open"
       THEN \E ok \in BOOLEAN :
               /\ frames' = [frames EXCEPT ![s] = Append(@, Frame("ping", 0, ok))]
               /\ pinging' = [pinging EXCEPT ![s] = ok]
       ELSE /\ pinging' = [pinging EXCEPT ![s] = FALSE]
            /\ UNCHANGED frames
    /\ UNCHANGED <<clients, readyState, received>>
    /\ UNCHANGED otherThanWs

\* the connection of a socket ends: its readyState leaves OPEN
SocketCloses(s) ==
    /\ readyState[s] = "open"
    /\ readyState' = [readyState EXCEPT ![s] = "closed"]
    /\ UNCHANGED <<clients, pinging, frames, received, pings>>
    /\ UNCHANGED otherThanWs

\* socket.on('close') / socket.on('error'): clearInterval, clients.delete
OnClose(s) ==
    /\ s \in clients
    /\ readyState[s] = "closed"
    /\ clients' = clients \ {s}
    /\ pinging' = [pinging EXCEPT ![s] = FALSE]
    /\ UNCHANGED <<readyState, frames, received, pings>>
    /\ UNCHANGED otherThanWs

NextWs ==
    \/ \E s \in Sockets : WsConnect(s)
    \/ Broadcast
    \/ \E s \in Sockets : Ping(s)
    \/ \E s \in Sockets : SocketCloses(s)
    \/ \E s \in Sockets : OnClose(s)

(***************************************************************************)
(* DELETE /queue/jobs/:id, beside the worker that takes and finishes the   *)
(* jobs.  The queue is initialized and Redis answers.  job.remove() of a   *)
(* job locked by a worker throws 'locked by another worker', the error the *)
(* handler's inner catch answers with 409.                                 *)
(***************************************************************************)
DelJobs  == {"j1", "j2"}
Requests == {"r1", "r2"}

\* no job is ever taken to be locked
LockedNever(j) == FALSE

\* the job is locked by the worker processing it
Locked(j) == djobs[j] = "active"

\* a job is added to the queue
DelAdd(j) ==
    /\ djobs[j] = "none"
    /\ djobs' = [djobs EXCEPT ![j] = "waiting"]
    /\ UNCHANGED <<dpc, dtarget, dstate, dresp>>
    /\ UNCHANGED otherThanDel

\* the worker takes a waiting job and locks it
DelWorkerTakes(j) ==
    /\ djobs[j] = "waiting"
    /\ djobs' = [djobs EXCEPT ![j] = "active"]
    /\ UNCHANGED <<dpc, dtarget, dstate, dresp>>
    /\ UNCHANGED otherThanDel

\* the worker finishes its job
DelWorkerDone(j) ==
    /\ djobs[j] = "active"
    /\ djobs' = [djobs EXCEPT ![j] = "completed"]
    /\ UNCHANGED <<dpc, dtarget, dstate, dresp>>
    /\ UNCHANGED otherThanDel

\* the handler up to job.remove(): queue.getJob (404 when there is none),
\* job.getState (409 when it is 'active')
DelCheck(r, j) ==
    /\ dpc[r] = "idle"
    /\ dtarget' = [dtarget EXCEPT ![r] = j]
    /\ IF djobs[j] = "none"
       THEN /\ dresp' = [dresp EXCEPT ![r] = "404"]
            /\ dstate' = [dstate EXCEPT ![r] = "none"]
            /\ UNCHANGED dpc
       ELSE /\ dstate' = [dstate EXCEPT ![r] = djobs[j]]
            /\ IF djobs[j] = "active"
               THEN /\ dresp' = [dresp EXCEPT ![r] = "409"]
                    /\ UNCHANGED dpc
               ELSE /\ dresp' = [dresp EXCEPT ![r] = "none"]
                    /\ dpc' = [dpc EXCEPT ![r] = "remove"]
    /\ UNCHANGED djobs
    /\ UNCHANGED otherThanDel

\* job.remove() and the answer: 409 from the inner catch when the job is
\* locked, 204 otherwise
DelRemove(r) ==
    /\ dpc[r] = "remove"
    /\ IF Locked(dtarget[r])
       THEN /\ dresp' = [dresp EXCEPT ![r] = "409"]
            /\ UNCHANGED djobs
       ELSE /\ djobs' = [djobs EXCEPT ![dtarget[r]] = "none"]
            /\ dresp' = [dresp EXCEPT ![r] = "204"]
    /\ dpc' = [dpc EXCEPT ![r] = "idle"]
    /\ UNCHANGED <<dtarget, dstate>>
    /\ UNCHANGED otherThanDel

NextDel ==
    \/ \E j \in DelJobs : DelAdd(j)
    \/ \E j \in DelJobs : DelWorkerTakes(j)
    \/ \E j \in DelJobs : DelWorkerDone(j)
    \/ \E r \in Requests, j \in DelJobs : DelCheck(r, j)
    \/ \E r \in Requests : DelRemove(r)

(***************************************************************************)
(* The backoff of one retry.  An error is its status and the marks, out of *)
(* Marks, that its message contains (String.includes is case-sensitive).   *)
(* Math.random() * 2 - 1 is taken at -1, 0 and 1, its range's ends and     *)
(* middle.                                                                 *)
(***************************************************************************)
initialDelayMs    == 2000
backoffMultiplier == 2
MaxDelayMs        == 60000

\* the retries whose delay is computed
MaxAttempt == 6

Marks    == {"429", "rate limit", "rate_limit", "overloaded"}
Statuses == {429, 529, 500}
NoStatus == 0
ApiErrors == [status : Statuses, marks : SUBSET Marks]
NoApiError == [status |-> NoStatus, marks |-> {}]

\* the marks contained in the prefixes analyzeProject puts before the message
RateLimitPrefix == {}              \* 'Rate limit exceeded: '
OverloadedPrefix == {"overloaded"} \* 'API overloaded: '

\* analyzeProject's tests of the error it caught
IsRateLimited(e) == e.status = 429 \/ "rate_limit" \in e.marks
IsOverloaded(e)  == e.status = 529 \/ "overloaded" \in e.marks

\* what analyzeProject's catch block throws: new Error(prefix + message),
\* which has no status, or the error itself
Rethrown(e) ==
    IF IsRateLimited(e) THEN [status |-> NoStatus, marks |-> RateLimitPrefix \cup e.marks]
    ELSE IF IsOverloaded(e) THEN [status |-> NoStatus, marks |-> OverloadedPrefix \cup e.marks]
    ELSE e

\* execute's test of the error it caught
IsRateLimit(e) == e.status = 429 \/ "rate limit" \in e.marks \/ "429" \in e.marks

RECURSIVE Pow(_, _)
Pow(b, n) == IF n = 0 THEN 1 ELSE b * Pow(b, n - 1)

Min(a, b) == IF a <= b THEN a ELSE b

\* calculateBackoff(attempt, isRateLimit), r standing for Math.random() * 2 - 1
calculateBackoff(att, isRateLimit, r) ==
    LET baseDelay == IF isRateLimit THEN initialDelayMs * 3 ELSE initialDelayMs
        d         == baseDelay * Pow(backoffMultiplier, att - 1)
        jitter    == ((d * 2) \div 10) * r
    IN  Min(d + jitter, MaxDelayMs)

\* the API call of attempt number att fails with e; analyzeProject rethrows
AnalyzerThrows(e, att) ==
    /\ retry.pc = "idle"
    /\ retry' = [pc |-> "caught", error |-> e, thrown |-> Rethrown(e), attempt |-> att,
                 delay |-> 0]
    /\ UNCHANGED otherThanBackoff

\* execute's catch block with attempts left: calculateBackoff, sleep(delay)
BackoffSleep(r) ==
    /\ retry.pc = "caught"
    /\ retry' = [retry EXCEPT !.pc = "slept",
                              !.delay = calculateBackoff(retry.attempt, IsRateLimit(retry.thrown), r)]
    /\ UNCHANGED otherThanBackoff

\* the sleep is over
BackoffWake ==
    /\ retry.pc = "slept"
    /\ retry' = [pc |-> "idle", error |-> NoApiError, thrown |-> NoApiError, attempt |-> 0,
                 delay |-> 0]
    /\ UNCHANGED otherThanBackoff

NextBackoff ==
    \/ \E e \in ApiErrors, att \in 1..MaxAttempt : AnalyzerThrows(e, att)
    \/ \E r \in {-1, 0, 1} : BackoffSleep(r)
    \/ BackoffWake

(***************************************************************************)
(* The attempts of the jobs a worker processes at once: execute's slot,    *)
(* withTimeout's race and the API call of analyzeProject.  processJob      *)
(* calls analyzeProject(context, projectId): its abortSignal parameter is  *)
(* undefined, and withTimeout has no handle on the call it races.          *)
(***************************************************************************)
TJobs == {"t1", "t2", "t3"}

\* a bound on the API calls outstanding at once
MaxOutstanding == 5

RECURSIVE SumOver(_, _)
SumOver(f, S) == IF S = {} THEN 0
                 ELSE LET x == CHOOSE y \in S : TRUE IN f[x] + SumOver(f, S \ {x})

Outstanding == SumOver(apiCalls, TJobs)

\* waitForSlot admits the attempt; fn starts: analyzeProject calls
\* client.messages.create, withTimeout sets its timer
TStart(t) ==
    /\ tpc[t] = "idle"
    /\ tslots < maxConcurrent
    /\ Outstanding < MaxOutstanding
    /\ tslots' = tslots + 1
    /\ apiCalls' = [apiCalls EXCEPT ![t] = @ + 1]
    /\ tpc' = [tpc EXCEPT ![t] = "running"]
    /\ UNCHANGED otherThanTimeout

\* the API call settles before the timer: the race settles with it, the
\* finally block releases the slot
TCallSettles(t) ==
    /\ tpc[t] = "running"
    /\ tslots' = tslots - 1
    /\ apiCalls' = [apiCalls EXCEPT ![t] = @ - 1]
    /\ tpc' = [tpc EXCEPT ![t] = "idle"]
    /\ UNCHANGED otherThanTimeout

\* the timer fires first: the race rejects with 'AI analysis timeout', the
\* finally block releases the slot; nothing reaches the API call
TTimeout(t) ==
    /\ tpc[t] = "running"
    /\ tslots' = tslots - 1
    /\ tpc' = [tpc EXCEPT ![t] = "idle"]
    /\ UNCHANGED apiCalls
    /\ UNCHANGED otherThanTimeout

\* an API call whose attempt has timed out settles; its result is dropped
TLateSettles(t) ==
    /\ apiCalls[t] > (IF tpc[t] = "running" THEN 1 ELSE 0)
    /\ apiCalls' = [apiCalls EXCEPT ![t] = @ - 1]
    /\ UNCHANGED <<tpc, tslots>>
    /\ UNCHANGED otherThanTimeout

NextTimeout ==
    \/ \E t \in TJobs : TStart(t)
    \/ \E t \in TJobs : TCallSettles(t)
    \/ \E t \in TJobs : TTimeout(t)
    \/ \E t \in TJobs : TLateSettles(t)

(***************************************************************************)
(* execute's loop for every maxRetries, of the configuration and of the    *)
(* options.  The slots and the sleeps are those of the rate limiter above  *)
(* and are left out here.                                                  *)
(***************************************************************************)
\* the largest maxRetries of a configuration or of the options
MaxConfigRetries == 3

\* options undefined, or options.maxRetries undefined
NoOption == -1

\* options?.maxRetries || this.config.maxRetries: 0 is falsy
EffectiveRetries(option, config) ==
    IF option = NoOption \/ option = 0 THEN config ELSE option

ExIdle == [pc |-> "idle", option |-> NoOption, config |-> 0, attempt |-> 0, ran |-> 0,
           thrown |-> NoError]

\* execute(fn, options) is called: attempt = 0, lastError undefined
ExCall(option, config) ==
    /\ ex.pc = "idle"
    /\ ex' = [ExIdle EXCEPT !.pc = "loop", !.option = option, !.config = config]
    /\ UNCHANGED otherThanExec

\* while (attempt < maxRetries): waitForSlot, then fn is invoked
ExInvoke ==
    /\ ex.pc = "loop"
    /\ ex.attempt < EffectiveRetries(ex.option, ex.config)
    /\ ex' = [ex EXCEPT !.pc = "fn", !.ran = @ + 1]
    /\ UNCHANGED otherThanExec

\* fn resolves: execute returns
ExFnReturns ==
    /\ ex.pc = "fn"
    /\ ex' = [ex EXCEPT !.pc = "done"]
    /\ UNCHANGED otherThanExec

\* fn rejects: lastError = error, attempt++, and (after the sleep, with
\* attempts left) the loop's test again
ExFnThrows(error) ==
    /\ ex.pc = "fn"
    /\ ex' = [ex EXCEPT !.pc = "loop", !.attempt = @ + 1, !.thrown = error]
    /\ UNCHANGED otherThanExec

\* the loop is left: throw lastError
ExThrow ==
    /\ ex.pc = "loop"
    /\ ~(ex.attempt < EffectiveRetries(ex.option, ex.config))
    /\ ex' = [ex EXCEPT !.pc = "threw"]
    /\ UNCHANGED otherThanExec

\* the call is over
ExEnd ==
    /\ ex.pc \in {"done", "threw"}
    /\ ex' = ExIdle
    /\ UNCHANGED otherThanExec

NextExec ==
    \/ \E option \in {NoOption} \cup (0..MaxConfigRetries), config \in 0..MaxConfigRetries :
          ExCall(option, config)
    \/ ExInvoke
    \/ ExFnReturns
    \/ \E error \in Errors : ExFnThrows(error)
    \/ ExThrow
    \/ ExEnd

(***************************************************************************)
(* The initial states and the specifications.                              *)
(***************************************************************************)
ExecRest ==
    ex = ExIdle

TimeoutRest ==
    /\ tpc = [t \in TJobs |-> "idle"]
    /\ tslots = 0
    /\ apiCalls = [t \in TJobs |-> 0]

BackoffRest ==
    retry = [pc |-> "idle", error |-> NoApiError, thrown |-> NoApiError, attempt |-> 0,
             delay |-> 0]

DelRest ==
    /\ djobs = [j \in DelJobs |-> "none"]
    /\ dpc = [r \in Requests |-> "idle"]
    /\ dtarget = [r \in Requests |-> "j1"]
    /\ dstate = [r \in Requests |-> "none"]
    /\ dresp = [r \in Requests |-> "none"]

WsRest ==
    /\ clients = {}
    /\ readyState = [s \in Sockets |-> "none"]
    /\ pinging = [s \in Sockets |-> FALSE]
    /\ frames = [s \in Sockets |-> <<>>]
    /\ received = 0
    /\ pings = 0

WatchRest ==
    /\ wnow = 0
    /\ wtimers = [x \in Kinds \X WatchDirs |-> NoTimer]
    /\ notified = [d \in WatchDirs |-> NoNote]
    /\ delivered = [d \in WatchDirs |-> <<>>]

StopRest ==
    /\ stpc = "running"
    /\ addPos = [d \in WatchDirs |-> "none"]
    /\ removePos = [d \in WatchDirs |-> "none"]
    /\ wire = {}
    /\ flushedAdd = {}
    /\ flushedRemove = {}

CacheRest ==
    /\ cnow = 0
    /\ cstore = [k \in CacheKeys |-> NoEntry]
    /\ spc = "idle"
    /\ sarg = NoSet
    /\ gpc = "idle"
    /\ garg = [path |-> "p1", lastModified |-> 1, at |-> 0]
    /\ gread = NoEntry
    /\ gret = NoEntry

QRest ==
    /\ qjobs = [id \in JobIds |-> NoJob]
    /\ qcache = FALSE
    /\ qrows = <<>>
    /\ qcompleted = <<>>

JobRest ==
    /\ jpc = "start"
    /\ events = <<>>
    /\ forceRefresh = FALSE
    /\ fromCache = FALSE
    /\ resultFlag = NoFlag
    /\ rowFlag = NoFlag
    /\ calls = 0

DbRest ==
    /\ projects = [p \in Paths |-> NoRow]
    /\ analyses = [p \in Paths |-> 0]

HRest ==
    /\ hpc = [h \in Handlers |-> "idle"]
    /\ hkind = [h \in Handlers |-> "subscriber"]
    /\ hpath = [h \in Handlers |-> NoPath]
    /\ hmeta = [h \in Handlers |-> NoMeta]
    /\ hcreated = [h \in Handlers |-> FALSE]
    /\ hfailed = [h \in Handlers |-> FALSE]
    /\ hremoved = [h \in Handlers |-> FALSE]
    /\ hmade = [h \in Handlers |-> FALSE]
    /\ apc = "idle"
    /\ aprev = "none"
    /\ resetIds = {}
    /\ apath = NoPath
    /\ jobs = {}
    /\ wpc = "idle"
    /\ wpath = NoPath

RLRest ==
    /\ now = 0
    /\ requestTimestamps = <<>>
    /\ currentConcurrent = 0
    /\ rpc = [c \in Callers |-> "idle"]
    /\ wake = [c \in Callers |-> 0]
    /\ attempt = [c \in Callers |-> 0]
    /\ lastError = [c \in Callers |-> NoError]
    /\ raised = [c \in Callers |-> NoError]
    /\ reservations = <<>>

DebRest ==
    /\ timers = [k \in Keys |-> NoTimer]
    /\ pendingEvents = [k \in Keys |-> NoData]
    /\ scheduled = {}
    /\ lastCall = [k \in Keys |-> NoCall]
    /\ fired = [k \in Keys |-> 0]
    /\ lastFired = [k \in Keys |-> NoFired]

PubRest ==
    /\ isConnected = FALSE
    /\ eventQueue = <<>>
    /\ inflight = <<>>
    /\ published = <<>>
    /\ nextEvent = 1
    /\ queuedLog = <<>>
    /\ dropped = {}
    /\ queueOrder = <<>>
    /\ behind = [e \in 1..MaxEvents |-> {}]

\* processJob is handed a job of an existing project, which the analyze
\* route has set to ANALYZING; the project may have been analyzed before
InitJob ==
    /\ jpc = "start"
    /\ events = <<>>
    /\ forceRefresh \in BOOLEAN
    /\ fromCache = FALSE
    /\ resultFlag = NoFlag
    /\ rowFlag = NoFlag
    /\ calls = 0
    /\ \E n \in 0..1, m \in MetaVals :
          /\ analyses = [p \in Paths |-> n]
          /\ projects = [p \in Paths |-> Row("ANALYZING", TRUE, n > 0, m)]
    /\ HRest /\ RLRest /\ DebRest /\ PubRest /\ QRest /\ CacheRest /\ StopRest /\ WatchRest /\ WsRest /\ DelRest /\ BackoffRest /\ TimeoutRest /\ ExecRest

InitDb  == JobRest /\ DbRest /\ HRest /\ RLRest /\ DebRest /\ PubRest /\ QRest /\ CacheRest /\ StopRest /\ WatchRest /\ WsRest /\ DelRest /\ BackoffRest /\ TimeoutRest /\ ExecRest
InitRL  == JobRest /\ DbRest /\ HRest /\ RLRest /\ DebRest /\ PubRest /\ QRest /\ CacheRest /\ StopRest /\ WatchRest /\ WsRest /\ DelRest /\ BackoffRest /\ TimeoutRest /\ ExecRest
InitDeb == JobRest /\ DbRest /\ HRest /\ RLRest /\ DebRest /\ PubRest /\ QRest /\ CacheRest /\ StopRest /\ WatchRest /\ WsRest /\ DelRest /\ BackoffRest /\ TimeoutRest /\ ExecRest
InitPub == JobRest /\ DbRest /\ HRest /\ RLRest /\ DebRest /\ PubRest /\ QRest /\ CacheRest /\ StopRest /\ WatchRest /\ WsRest /\ DelRest /\ BackoffRest /\ TimeoutRest /\ ExecRest
InitCache == JobRest /\ DbRest /\ HRest /\ RLRest /\ DebRest /\ PubRest /\ QRest /\ CacheRest /\ StopRest /\ WatchRest /\ WsRest /\ DelRest /\ BackoffRest /\ TimeoutRest /\ ExecRest
InitStop == JobRest /\ DbRest /\ HRest /\ RLRest /\ DebRest /\ PubRest /\ QRest /\ CacheRest /\ StopRest /\ WatchRest /\ WsRest /\ DelRest /\ BackoffRest /\ TimeoutRest /\ ExecRest
InitQueue == JobRest /\ DbRest /\ HRest /\ RLRest /\ DebRest /\ PubRest /\ QRest /\ CacheRest /\ StopRest /\ WatchRest /\ WsRest /\ DelRest /\ BackoffRest /\ TimeoutRest /\ ExecRest
InitWatch == JobRest /\ DbRest /\ HRest /\ RLRest /\ DebRest /\ PubRest /\ QRest /\ CacheRest /\ StopRest /\ WatchRest /\ WsRest /\ DelRest /\ BackoffRest /\ TimeoutRest /\ ExecRest
InitWs == JobRest /\ DbRest /\ HRest /\ RLRest /\ DebRest /\ PubRest /\ QRest /\ CacheRest /\ StopRest /\ WatchRest /\ WsRest /\ DelRest /\ BackoffRest /\ TimeoutRest /\ ExecRest
InitDel == JobRest /\ DbRest /\ HRest /\ RLRest /\ DebRest /\ PubRest /\ QRest /\ CacheRest /\ StopRest /\ WatchRest /\ WsRest /\ DelRest /\ BackoffRest /\ TimeoutRest /\ ExecRest
InitBackoff == JobRest /\ DbRest /\ HRest /\ RLRest /\ DebRest /\ PubRest /\ QRest /\ CacheRest /\ StopRest /\ WatchRest /\ WsRest /\ DelRest /\ BackoffRest /\ TimeoutRest /\ ExecRest
InitTimeout == JobRest /\ DbRest /\ HRest /\ RLRest /\ DebRest /\ PubRest /\ QRest /\ CacheRest /\ StopRest /\ WatchRest /\ WsRest /\ DelRest /\ BackoffRest /\ TimeoutRest /\ ExecRest
InitExec == JobRest /\ DbRest /\ HRest /\ RLRest /\ DebRest /\ PubRest /\ QRest /\ CacheRest /\ StopRest /\ WatchRest /\ WsRest /\ DelRest /\ BackoffRest /\ TimeoutRest /\ ExecRest

SpecJob == InitJob /\ [][NextJob]_vars
SpecDb  == InitDb /\ [][NextDb]_vars
SpecRL  == InitRL /\ [][NextRL]_vars
SpecDeb == InitDeb /\ [][NextDeb]_vars
SpecPub == InitPub /\ [][NextPub]_vars
SpecQueue == InitQueue /\ [][NextQueue]_vars
SpecCache == InitCache /\ [][NextCache]_vars
SpecStop == InitStop /\ [][NextStop]_vars
SpecWatch == InitWatch /\ [][NextWatch]_vars
SpecWs == InitWs /\ [][NextWs]_vars
SpecDel == InitDel /\ [][NextDel]_vars
SpecBackoff == InitBackoff /\ [][NextBackoff]_vars
SpecTimeout == InitTimeout /\ [][NextTimeout]_vars
SpecExec == InitExec /\ [][NextExec]_vars


(***************************************************************************)
(* The event sequence of one job execution.                                *)
(***************************************************************************)
Terminal == {"analysis:completed", "analysis:failed"}

TerminalCount == Cardinality({i \in 1..Len(events) : events[i] \in Terminal})

\* C1: the events of one job execution are published in the order
\* analysis:started, then analysis:progress any number of times, then the
\* terminal event: analysis:started precedes every other event, and no
\* analysis:progress is published after analysis:completed or analysis:failed.
C1_EventOrder ==
    \A i \in 1..Len(events) :
        /\ (events[i] = "analysis:started") <=> (i = 1)
        /\ events[i] = "analysis:progress" =>
              \A j \in 1..(i - 1) : events[j] \notin Terminal

\* C2: a job execution that has ended has published exactly one terminal
\* event, analysis:completed or analysis:failed, and never both.
C2_OneTerminal ==
    jpc \in {"returned", "thrown"} => TerminalCount = 1

(***************************************************************************)
(* The projects table.                                                     *)
(***************************************************************************)
\* C3: every project whose status is ANALYZED has at least one
\* ProjectAnalysis row and a non-null analyzedAt.
C3_AnalyzedHasAnalysis ==
    \A p \in Paths :
        (Exists(p) /\ projects[p].status = "ANALYZED") =>
            (analyses[p] >= 1 /\ projects[p].analyzedAt)

\* a project analyzed for the second time
C3_AnalyzedAgain ==
    \E p \in Paths :
        /\ Exists(p)
        /\ projects[p].status = "ANALYZED"
        /\ analyses[p] = 2
        /\ wpc = "idle"

(***************************************************************************)
(* The rate limiter.                                                       *)
(***************************************************************************)
Running == {c \in Callers : rpc[c] = "running"}

\* the reservations recorded in the window that ends at time t: the
\* timestamps ts with t - Window < ts <= t
InWindow(t) == {i \in 1..Len(reservations) :
                   reservations[i] > t - Window /\ reservations[i] <= t}

\* C4: the number of calls in flight through execute never exceeds
\* maxConcurrent, callers that slept in the requests-per-minute gate
\* included.
C4_ConcurrencyCap ==
    /\ Cardinality(Running) <= maxConcurrent
    /\ currentConcurrent <= maxConcurrent

\* C5: no window of Window ticks (60 seconds) holds more than
\* requestsPerMinute reservations, whichever callers made them: the test of
\* the window and the recording of the timestamp are one step, so that no
\* other caller is admitted in between.
C5_RateWindow ==
    /\ \A t \in 0..MaxTime : Cardinality(InWindow(t)) <= requestsPerMinute
    /\ CleanOld(requestTimestamps, now) = CleanOld(reservations, now)

\* the window that ends now is full for the second time, and a caller is
\* held in the rate gate
C5_FullAgain ==
    /\ Cardinality(InWindow(now)) = requestsPerMinute
    /\ Len(reservations) = 2 * requestsPerMinute
    /\ \E c \in Callers : rpc[c] = "sleepB" /\ wake[c] > now

(***************************************************************************)
(* The debouncer.                                                          *)
(***************************************************************************)
LiveTimers(k) == {t \in scheduled : t.key = k}

\* C6: for each key, the calls of debounce that follow one another before
\* the timer has run are answered by one invocation of the callback, with
\* the data of the last call, not before delay has passed since that call
\* (or at once by flush); the callback is never invoked twice without a call
\* of debounce in between.  Until then exactly one live timer, due delay
\* after the last call, holds the last data.
C6_OncePerBurst ==
    \A k \in Keys :
        /\ fired[k] <= 1
        /\ fired[k] = 1 =>
              /\ lastFired[k].data = lastCall[k].data
              /\ lastFired[k].byTimer => lastFired[k].time >= lastCall[k].time + delay
        /\ (lastCall[k] # NoCall /\ fired[k] = 0) =>
              /\ pendingEvents[k] = lastCall[k].data
              /\ timers[k] = lastCall[k].time + delay
              /\ LiveTimers(k) = {[key |-> k, due |-> timers[k]]}
        /\ (lastCall[k] = NoCall \/ fired[k] = 1) =>
              /\ pendingEvents[k] = NoData
              /\ LiveTimers(k) = {}

\* a burst of two calls with different data, the second one tick after the
\* first, has been answered by the timer with the data of the second
C6_BurstAnswered ==
    \E k \in Keys :
        /\ fired[k] = 1
        /\ lastFired[k].byTimer
        /\ lastCall[k].coalesced
        /\ lastCall[k].time = 1
        /\ lastFired[k].data = "d2"
        /\ lastFired[k].time = 1 + delay

(***************************************************************************)
(* The publisher's outbox.                                                 *)
(***************************************************************************)
\* the last n elements of q
LastOf(q, n) == SubSeq(q, Len(q) - n + 1, Len(q))

\* the place of e in the sequence q that holds it
Pos(q, e) == CHOOSE i \in 1..Len(q) : q[i] = e

\* C7: the outbox never holds more than maxQueueSize events (1000 in the
\* code), and it holds the most recent of the events queued since it was
\* last emptied, in the order of their queueing: queueing into a full outbox
\* drops exactly the oldest event.
C7_OutboxBounded ==
    /\ Len(eventQueue) <= maxQueueSize
    /\ eventQueue = LastOf(queuedLog, Min(Len(queuedLog), maxQueueSize))
    /\ dropped \cap SeqToSet(eventQueue) = {}

\* the outbox is full and its oldest event has been dropped
C7_OldestDropped ==
    /\ Len(eventQueue) = maxQueueSize
    /\ Len(queuedLog) = maxQueueSize + 1
    /\ dropped = {Head(queuedLog)}

\* C8: the outbox is flushed in order: events are published in the order in
\* which they were queued, and an event submitted to publish while a flush
\* is in progress is not published ahead of the older events that were
\* still waiting to be flushed.
C8_FlushInOrder ==
    /\ \A i, j \in 1..Len(queueOrder) :
          (i < j /\ queueOrder[i] \in SeqToSet(published)
                 /\ queueOrder[j] \in SeqToSet(published))
             => Pos(published, queueOrder[i]) < Pos(published, queueOrder[j])
    /\ \A e \in SeqToSet(published) : \A w \in behind[e] \ dropped :
          /\ w \in SeqToSet(published)
          /\ Pos(published, w) < Pos(published, e)

(***************************************************************************)
(* The handling of project:added.                                          *)
(***************************************************************************)
\* handler h ends its createProjectSafe in this step
EndsCreate(h) == hpc[h] \in {"create", "reread"} /\ hpc'[h] = "publish"

\* C9: when two handlings of project:added for one path run together (two
\* subscribers, or a subscriber and a scan) and no removal of the path is
\* handled meanwhile, each of them ends its write with the path's one row
\* present and isActive = true, and without failing on the unique-path
\* conflict.
C9_ConcurrentAdded ==
    [][\A h \in Handlers :
          (EndsCreate(h) /\ ~hremoved[h]
              /\ \E g \in Handlers \ {h} :
                    hpath[g] = hpath[h] /\ hpc[g] # "idle" /\ ~hremoved[g])
             => /\ projects'[hpath[h]] # NoRow
                /\ projects'[hpath[h]].isActive
                /\ ~hfailed'[h]]_vars

\* C10: when the subscriber handles project:added for a path that has a
\* row, it leaves the row with the freshly extracted metadata and with
\* isActive = true, and with its status unchanged when that is ANALYZING or
\* QUEUED.
C10_ExistingRowUpdated ==
    [][\A h \in Handlers :
          (hkind[h] = "subscriber" /\ hpc[h] = "reread" /\ hpc'[h] = "publish"
              /\ projects[hpath[h]] # NoRow)
             => /\ projects'[hpath[h]].meta = hmeta[h]
                /\ projects'[hpath[h]].isActive
                /\ projects[hpath[h]].status \in {"ANALYZING", "QUEUED"}
                      => projects'[hpath[h]].status = projects[hpath[h]].status]_vars

\* C11: the handling of a project:added discovery event publishes
\* project:added to the clients exactly when that handling created the row,
\* and project:updated exactly when a row of the path existed already.
C11_AddedIffCreated ==
    [][\A h \in Handlers :
          (hkind[h] = "subscriber" /\ hpc[h] = "publish" /\ hpc'[h] = "idle"
              /\ ~hfailed[h])
             => /\ (ClientEvent(h) = "project:added") <=> hmade[h]
                /\ (ClientEvent(h) = "project:updated") <=> ~hmade[h]]_vars

\* C12: discovery events of one path take effect on its row in the order
\* of their publication: when a project:removed of the path has been handled
\* after the project:added events in hand were received, the row these
\* handlings leave is inactive and ARCHIVED, also when a handling of the
\* earlier event was awaiting its I/O as the removal arrived.
C12_RemovedAfterAdded ==
    [][\A h \in Handlers :
          (hkind[h] = "subscriber" /\ hpc[h] = "create" /\ hpc'[h] = "publish"
              /\ hremoved[h]
              /\ \A g \in Handlers : hpath[g] = hpath[h] => hremoved[g])
             => /\ ~projects'[hpath[h]].isActive
                /\ projects'[hpath[h]].status = "ARCHIVED"]_vars

\* C13: whenever processJob has ended by throwing, analysis:failed has been
\* published for the job, and the execution has not set the project's
\* status to ANALYZED.
C13_FailedNotAnalyzed ==
    jpc = "thrown" =>
        /\ \E i \in 1..Len(events) : events[i] = "analysis:failed"
        /\ projects[JobPath].status # "ANALYZED"

\* C14: saveToDatabase applies the insert of the Analysis and the update of
\* the Project as one step: no step applies one of the two writes without
\* the other.
C14_SaveAtomic ==
    [][(analyses'[JobPath] # analyses[JobPath]) <=> (projects'[JobPath] # projects[JobPath])]_vars

(***************************************************************************)
(* The analysis queue.                                                     *)
(***************************************************************************)
Enqueued == {id \in JobIds : qjobs[id] # NoJob}

\* the place of job id's row among the rows persisted
RowPos(id) == CHOOSE i \in 1..Len(qrows) : qrows[i].job = id

\* C15: of the jobs enqueued together for one project, none with
\* forceRefresh, exactly one has analysis:completed published; with
\* forceRefresh, the Analysis row of the later completion is persisted
\* after the row of the earlier one.
C15_OneCompleted ==
    /\ (\A id \in Enqueued : ~qjobs[id].force) => Len(qcompleted) <= 1
    /\ \A i, j \in 1..Len(qcompleted) :
          i < j => RowPos(qcompleted[i]) < RowPos(qcompleted[j])

\* C18: every enqueued job is handed to the processor at most once.
C18_HandedOnce ==
    \A id \in JobIds : qjobs[id].handed <= 1

(***************************************************************************)
(* The cache-hit branch of processJob.                                     *)
(***************************************************************************)
\* C16: a job without forceRefresh that has found an entry in the cache and
\* has returned has not called the analyzer nor taken a rate-limiter slot,
\* has persisted a new Analysis row whose cacheHit is true, and has
\* published analysis:completed.
C16_CacheHitRow ==
    (fromCache /\ jpc = "returned") =>
        /\ ~forceRefresh
        /\ calls = 0
        /\ rowFlag = TRUE
        /\ \E i \in 1..Len(events) : events[i] = "analysis:completed"

(***************************************************************************)
(* CacheManager.get.                                                       *)
(***************************************************************************)
GetReturns == gpc # "idle" /\ gpc' = "idle"

\* C17: an entry returned by get(path, lastModified) has expiresAt after the
\* time of the call and is one stored by a set with that path and that
\* lastModified; an entry that client.get gave and that has expired (its
\* expiresAt is not after the current time) is deleted and get returns none.
C17_FreshEntry ==
    [][/\ (GetReturns /\ gret' # NoEntry) =>
              /\ gret'.expiresAt > garg.at
              /\ gret'.projectHash = garg.path
              /\ gret'.lastModified = garg.lastModified
       /\ (gpc = "check" /\ gpc' # "check" /\ gread # NoEntry /\ gread.expiresAt <= cnow) =>
              gpc' = "del"
       /\ (gpc = "del" /\ GetReturns) =>
              /\ gret' = NoEntry
              /\ cstore'[generateCacheKey(garg.path, garg.lastModified)] = NoEntry]_vars

(***************************************************************************)
(* RateLimiter.execute: which failures of fn are retried.                  *)
(***************************************************************************)
Retryable == {"rateLimit"}

FnFailed(c) == rpc[c] = "running" /\ attempt'[c] = attempt[c] + 1

\* C19: when fn has failed with an error that is not retryable, execute
\* throws: it does not call onRetry, sleep a backoff and invoke fn again.
C19_RetryOnlyRetryable ==
    [][\A c \in Callers :
          (FnFailed(c) /\ lastError'[c] \notin Retryable) => rpc'[c] = "threw"]_vars

(***************************************************************************)
(* FileWatcher.stop.                                                       *)
(***************************************************************************)
\* C20: once stop() has told the bus client to quit, every event that was
\* pending in the add or the remove debouncer when stop() ran has been
\* published, unless it is an add event that failed validation; none is
\* still on its way or was turned away by the closed client.
C20_FlushedBeforeClose ==
    Quit =>
        /\ \A d \in flushedAdd : addPos[d] \in {"sent", "invalid"}
        /\ \A d \in flushedAdd : addPos[d] = "sent" => <<"added", d>> \in wire
        /\ \A d \in flushedRemove : <<"removed", d>> \in wire

(***************************************************************************)
(* The watcher's debounced events.                                         *)
(***************************************************************************)
\* C21: of the addDir and unlinkDir notifications of one directory that
\* fall in one debounce window, at most one debounced event is delivered,
\* and it is of the kind of the last notification.
C21_OnePerWindow ==
    \A d \in WatchDirs :
        /\ Len(delivered[d]) <= 1
        /\ Len(delivered[d]) = 1 => delivered[d][1] = notified[d].kind

(***************************************************************************)
(* Debouncer: the timer of a repeated call, flushAll and cancelAll.        *)
(***************************************************************************)
\* C22: a call of debounce cancels the key's earlier timer: a key never has
\* two live timers, and a timer invokes the callback for a key only when a
\* full delay has passed since the latest call of debounce for that key.
C22_FullDelay ==
    [][\A k \in Keys :
          /\ Cardinality({t \in scheduled' : t.key = k}) <= 1
          /\ (fired'[k] > fired[k] /\ lastFired'[k].byTimer) =>
                /\ lastCall[k] # NoCall
                /\ now >= lastCall[k].time + delay]_vars

\* a call made at time 2 while the event of an earlier call was pending has
\* been answered by the timer exactly delay later
C22_SecondCallAnswered ==
    \E k \in Keys :
        /\ lastCall[k].coalesced
        /\ lastCall[k].time = 2
        /\ fired[k] = 1
        /\ lastFired[k].byTimer
        /\ lastFired[k].time = 2 + delay

PendingKeys == {k \in Keys : pendingEvents[k] # NoData}

\* C23: flushAll invokes the callback in the call itself, once for each key
\* that has a pending event and with that event's data, and for no other
\* key; after it no event is pending and no timer is live; and an event
\* delivered by a flush is not delivered again, whatever time passes, until
\* debounce is called for its key again.
C23_FlushAllOnce ==
    [][/\ FlushAll =>
             /\ \A k \in PendingKeys :
                   /\ fired'[k] = fired[k] + 1
                   /\ lastFired'[k] = [data |-> pendingEvents[k], time |-> now, byTimer |-> FALSE]
             /\ \A k \in Keys \ PendingKeys : fired'[k] = fired[k] /\ lastFired'[k] = lastFired[k]
             /\ \A k \in Keys : pendingEvents'[k] = NoData /\ timers'[k] = NoTimer
             /\ scheduled' = {}
       /\ \A k \in Keys :
             (fired[k] >= 1 /\ ~lastFired[k].byTimer) => fired'[k] <= fired[k]]_vars

\* both keys were pending with different data, were flushed in one instant
\* before their timers were due, and the timers' deadlines have passed since
C23_FlushedAndDeadlinePassed ==
    /\ \A k \in Keys :
          /\ fired[k] = 1
          /\ ~lastFired[k].byTimer
          /\ lastFired[k].time < lastCall[k].time + delay
          /\ now > lastCall[k].time + delay
    /\ lastFired["k1"].time = lastFired["k2"].time
    /\ lastFired["k1"].data # lastFired["k2"].data

\* C24: cancelAll leaves no pending event (getPendingCount() is 0) and no
\* live timer; the callback is invoked for a key only for a call of debounce
\* that no cancel has discarded, with that call's data, and a call made
\* after a cancelAll is answered by its timer as usual.
C24_CancelAllDiscards ==
    [][/\ CancelAll =>
             /\ \A k \in Keys : pendingEvents'[k] = NoData /\ timers'[k] = NoTimer
             /\ scheduled' = {}
             /\ fired' = fired /\ lastFired' = lastFired
       /\ \A k \in Keys :
             fired'[k] > fired[k] =>
                /\ lastCall[k] # NoCall
                /\ lastFired'[k].data = lastCall[k].data
                /\ lastFired'[k].time >= lastCall[k].time]_vars

\* k2, delivered once before, had a later event pending that a cancel has
\* discarded (only a cancel leaves a key that was delivered without a latest
\* call): no callback has followed for it although a full delay has passed,
\* and a call of debounce for k1 made since has been answered by its timer
C24_CancelledThenDelivered ==
    /\ lastCall["k2"] = NoCall
    /\ lastFired["k2"] # NoFired
    /\ fired["k2"] = 0
    /\ pendingEvents["k2"] = NoData
    /\ now > lastFired["k2"].time + delay
    /\ lastCall["k1"] # NoCall
    /\ lastCall["k1"].time >= lastFired["k2"].time
    /\ ~lastCall["k1"].coalesced
    /\ fired["k1"] = 1
    /\ lastFired["k1"].byTimer

(***************************************************************************)
(* The realtime fan-out.                                                   *)
(***************************************************************************)
\* socket s is handed a frame in this step
Sent(s) == Len(frames'[s]) > Len(frames[s])

\* the frames handed to s whose send or ping failed, the connected frame aside
FailedFrames(fs) == {i \in 1..Len(fs) : ~fs[i].ok /\ fs[i].kind # "connected"}

\* C25: once the send of a broadcast event or a keepalive ping to a client
\* has failed, the client is out of the connection set, and no later frame
\* is handed to it.
C25_FailedClientDropped ==
    [][\A s \in Sockets :
          /\ FailedFrames(frames'[s]) # {} => s \notin clients'
          /\ Sent(s) => FailedFrames(frames[s]) = {}]_vars

\* the bus events among the frames fs, in order
RECURSIVE EventsOf(_)
EventsOf(fs) ==
    IF fs = <<>> THEN <<>>
    ELSE IF Head(fs).kind = "event" THEN <<Head(fs).ev>> \o EventsOf(Tail(fs))
    ELSE EventsOf(Tail(fs))

\* C26: the first frame handed to a client is the connected frame; when an
\* event is received on the bus it is handed, once, to every client that is
\* in the connection set and open, and to no other; so each client is
\* handed events once each and in the order received.
C26_ConnectedThenEvents ==
    [][\A s \in Sockets :
          /\ frames'[s] # <<>> => frames'[s][1].kind = "connected"
          /\ received' = received + 1 =>
                IF s \in clients /\ readyState[s] = "open"
                THEN /\ Len(frames'[s]) = Len(frames[s]) + 1
                     /\ SubSeq(frames'[s], 1, Len(frames[s])) = frames[s]
                     /\ frames'[s][Len(frames'[s])].kind = "event"
                     /\ frames'[s][Len(frames'[s])].ev = received'
                ELSE frames'[s] = frames[s]
          /\ received' = received => EventsOf(frames'[s]) = EventsOf(frames[s])
          /\ \A i, j \in 1..Len(EventsOf(frames'[s])) :
                i < j => EventsOf(frames'[s])[i] < EventsOf(frames'[s])[j]]_vars

\* s1 was handed the connected frame and then both events in order; s2,
\* still in the set but no longer open, was handed the connected frame and
\* neither event
C26_TwoClientsServed ==
    /\ EventsOf(frames["s1"]) = <<1, 2>>
    /\ frames["s1"][1].kind = "connected"
    /\ Len(frames["s2"]) = 1
    /\ frames["s2"][1].kind = "connected"
    /\ readyState["s2"] = "closed"
    /\ "s2" \in clients
    /\ received = MaxBus

\* C27: once a project's status is ARCHIVED no pipeline operation (the save
\* of a job in flight, the analyze route, reset-stuck, a re-discovery of the
\* path) changes it; only a client's own PUT with status 'active' or a scan
\* asked to reset the deleted projects may.
C27_ArchivedTerminal ==
    [][\A p \in Paths :
          (Exists(p) /\ projects[p].status = "ARCHIVED")
             => \/ projects'[p].status = "ARCHIVED"
                \/ PutStatus(p, "DISCOVERED")
                \/ ScanResetDeleted]_vars

\* C28: a project whose status is ARCHIVED is not active (one half of:
\* isActive is false exactly when the project is archived or its directory
\* was removed).
C28_ArchivedInactive ==
    \A p \in Paths :
       (Exists(p) /\ projects[p].status = "ARCHIVED") => ~projects[p].isActive

\* C29: when reset-stuck has removed the waiting jobs and reports success,
\* no project has status ANALYZING and no job of a project it reset is
\* waiting in the queue or active in the worker.  (A reset whose queue
\* client failed before removing anything is left out.)
C29_ResetLeavesNothing ==
    [][(ResetStuckClear /\ jobs' = {}) =>
          /\ \A p \in Paths : projects'[p].status # "ANALYZING"
          /\ \A p \in resetIds :
                /\ p \notin jobs'
                /\ ~(wpc' # "idle" /\ wpath' = p)]_vars

\* C30: a delete of a job that is active when the handler reads its state,
\* or that has become active when the handler removes it, answers 409 and
\* leaves the job as it is; no delete takes an active job out of the queue.
C30_ActiveDeleteConflicts ==
    [][/\ \A r \in Requests, j \in DelJobs :
             (DelCheck(r, j) /\ djobs[j] = "active")
                => dresp'[r] = "409" /\ djobs'[j] = "active"
       /\ \A r \in Requests :
             (DelRemove(r) /\ djobs[dtarget[r]] = "active")
                => dresp'[r] = "409" /\ djobs'[dtarget[r]] = "active"
       /\ \A j \in DelJobs :
             djobs[j] = "active" => djobs'[j] \in {"active", "completed"}]_vars

\* r1 read its job as waiting, the worker took the job before r1 removed
\* it, and r1 answered 409 with the job still active
C30_TakenBetween ==
    /\ dpc["r1"] = "idle"
    /\ dstate["r1"] = "waiting"
    /\ dresp["r1"] = "409"
    /\ djobs[dtarget["r1"]] = "active"

(***************************************************************************)
(* POST /queue/jobs/:id/force-delete, beside the delete route and the      *)
(* worker.  job.moveToFailed of a job that is still active leaves it       *)
(* failed and unlocked, and throws when the job is active no longer.       *)
(***************************************************************************)
\* the handler up to the inner try: queue.getJob (404 when there is none),
\* job.getState
ForceCheck(r, j) ==
    /\ dpc[r] = "idle"
    /\ dtarget' = [dtarget EXCEPT ![r] = j]
    /\ IF djobs[j] = "none"
       THEN /\ dresp' = [dresp EXCEPT ![r] = "404"]
            /\ dstate' = [dstate EXCEPT ![r] = "none"]
            /\ UNCHANGED dpc
       ELSE /\ dstate' = [dstate EXCEPT ![r] = djobs[j]]
            /\ dresp' = [dresp EXCEPT ![r] = "none"]
            /\ dpc' = [dpc EXCEPT ![r] = IF djobs[j] = "active" THEN "forceMove" ELSE "forceRemove"]
    /\ UNCHANGED djobs
    /\ UNCHANGED otherThanDel

\* job.moveToFailed(new Error('Force deleted by user'), '0', false); a throw
\* goes to the catch of the inner try
ForceMove(r) ==
    /\ dpc[r] = "forceMove"
    /\ IF djobs[dtarget[r]] = "active"
       THEN /\ djobs' = [djobs EXCEPT ![dtarget[r]] = "failed"]
            /\ dpc' = [dpc EXCEPT ![r] = "forceRemove"]
       ELSE /\ dpc' = [dpc EXCEPT ![r] = "forceCleanup"]
            /\ UNCHANGED djobs
    /\ UNCHANGED <<dtarget, dstate, dresp>>
    /\ UNCHANGED otherThanDel

\* job.remove() of the inner try and the answer success: true; a throw goes
\* to the catch
ForceRemove(r) ==
    /\ dpc[r] = "forceRemove"
    /\ IF Locked(dtarget[r])
       THEN /\ dpc' = [dpc EXCEPT ![r] = "forceCleanup"]
            /\ UNCHANGED <<djobs, dresp>>
       ELSE /\ djobs' = [djobs EXCEPT ![dtarget[r]] = "none"]
            /\ dresp' = [dresp EXCEPT ![r] = "200"]
            /\ dpc' = [dpc EXCEPT ![r] = "idle"]
    /\ UNCHANGED <<dtarget, dstate>>
    /\ UNCHANGED otherThanDel

\* the catch of the inner try: Promise.allSettled([job.discard(),
\* job.remove()]), which never rejects, then the answer success: true
ForceCleanup(r) ==
    /\ dpc[r] = "forceCleanup"
    /\ IF Locked(dtarget[r])
       THEN UNCHANGED djobs
       ELSE djobs' = [djobs EXCEPT ![dtarget[r]] = "none"]
    /\ dresp' = [dresp EXCEPT ![r] = "200"]
    /\ dpc' = [dpc EXCEPT ![r] = "idle"]
    /\ UNCHANGED <<dtarget, dstate>>
    /\ UNCHANGED otherThanDel

NextForce ==
    \/ NextDel
    \/ \E r \in Requests, j \in DelJobs : ForceCheck(r, j)
    \/ \E r \in Requests : ForceMove(r)
    \/ \E r \in Requests : ForceRemove(r)
    \/ \E r \in Requests : ForceCleanup(r)

SpecForce == InitDel /\ [][NextForce]_vars

\* C31: when force-delete answers success the job is no longer in the queue.
C31_SuccessMeansGone ==
    [][\A r \in Requests :
          ((ForceRemove(r) \/ ForceCleanup(r)) /\ dresp'[r] = "200")
             => djobs'[dtarget[r]] = "none"]_vars

(***************************************************************************)
(* RateLimiter.execute when every invocation of fn fails.                  *)
(***************************************************************************)
\* C32: fn is invoked at most maxRetries times in one call of execute; each
\* failing invocation held a slot and releases it; and when execute throws,
\* fn has failed maxRetries times and the error thrown is the one the last
\* invocation raised.
C32_ThrowsLastError ==
    [][\A c \in Callers :
          /\ attempt'[c] <= maxRetries
          /\ FnFailed(c) => /\ currentConcurrent >= 1
                            /\ currentConcurrent' = currentConcurrent - 1
          /\ rpc'[c] = "threw" => /\ attempt'[c] = maxRetries
                                  /\ raised'[c] # NoError
                                  /\ lastError'[c] = raised'[c]]_vars

\* c1's call has thrown after maxRetries failures of fn, the last one a
\* rate-limit error, while c2's call has run fn and returned
C32_AllFailed ==
    /\ rpc["c1"] = "threw"
    /\ attempt["c1"] = maxRetries
    /\ lastError["c1"] = "rateLimit"
    /\ rpc["c2"] = "done"

(***************************************************************************)
(* The delay before a retry.                                               *)
(***************************************************************************)
\* base * multiplier^(attempt - 1), base being tripled for an error that
\* analyzeProject took for a rate-limit or an overload failure
Nominal(e, att) ==
    (IF IsRateLimited(e) \/ IsOverloaded(e) THEN 3 * initialDelayMs ELSE initialDelayMs)
       * Pow(backoffMultiplier, att - 1)

\* C33: the delay slept before a retry never exceeds 60000 ms and, unless
\* it is clamped to that, lies within 20% of base * multiplier^(attempt-1),
\* the base being 3 * initialDelayMs when the attempt failed with a
\* rate-limit or an overload error and initialDelayMs otherwise.
C33_BackoffDelay ==
    retry.pc = "slept" =>
        LET n == Nominal(retry.error, retry.attempt) IN
        /\ retry.delay <= MaxDelayMs
        /\ \/ retry.delay = MaxDelayMs
           \/ /\ 10 * retry.delay >= 8 * n
              /\ 10 * retry.delay <= 12 * n

(***************************************************************************)
(* The analysis timeout.                                                   *)
(***************************************************************************)
\* C34: an attempt that has released its slot has no API call outstanding,
\* and the API calls outstanding never exceed maxConcurrent.
C34_NoCallOutlivesSlot ==
    /\ \A t \in TJobs : tpc[t] = "idle" => apiCalls[t] = 0
    /\ Outstanding <= maxConcurrent

(***************************************************************************)
(* The status of a project whose job has ended.                            *)
(***************************************************************************)
\* C35: when the job of a project in ANALYZING ends, completed or failed,
\* the project leaves ANALYZING with that step: nothing else in the
\* pipeline acts for the job afterwards.
C35_LeavesAnalyzing ==
    [][((WorkerSaveUpdate \/ WorkerFail) /\ projects[wpath].status = "ANALYZING")
          => projects'[wpath].status # "ANALYZING"]_vars

(***************************************************************************)
(* execute for every configuration.                                        *)
(***************************************************************************)
\* C36: whenever execute throws, fn has been invoked at least once and the
\* error thrown is one fn raised.
C36_ThrowsAfterRunning ==
    ex.pc = "threw" => ex.ran >= 1 /\ ex.thrown \in Errors

(***************************************************************************)
(* The rate limiter's slots.                                               *)
(***************************************************************************)
\* C37: currentConcurrent is the number of invocations of fn in flight: it
\* is never negative, it is 0 when no caller is inside fn, and each
\* invocation, returning or throwing, gives back exactly the slot it took.
C37_SlotsMatchInFlight ==
    /\ currentConcurrent = Cardinality(Running)
    /\ currentConcurrent >= 0
    /\ (\A c \in Callers : rpc[c] \in {"idle", "done", "threw"}) => currentConcurrent = 0

\* both callers have been through fn, one call has returned and the other
\* has thrown after its retries, and no slot is held
C37_AllReleased ==
    /\ rpc["c1"] = "done"
    /\ rpc["c2"] = "threw"
    /\ attempt["c2"] = maxRetries
    /\ Len(reservations) >= maxRetries + 1
    /\ currentConcurrent = 0

(***************************************************************************)
(* The publisher's outbox, in the long run.  The Redis client settles      *)
(* every call of client.publish and, while it is disconnected, goes on     *)
(* reconnecting until it succeeds.                                         *)
(***************************************************************************)
SpecPubLive ==
    /\ InitPub
    /\ [][NextPub]_vars
    /\ WF_vars(PublishResolves \/ PublishRejects)
    /\ WF_vars(Connect)

\* C38: when the connection is in the end available for good, an event
\* that is in the outbox is in the end published, unless it is dropped
\* from a full outbox.
C38_QueuedIsPublished ==
    (<>[]isConnected) =>
       \A e \in 1..MaxEvents :
          (e \in SeqToSet(eventQueue)) ~> (e \in SeqToSet(published) \/ e \in dropped)

(***************************************************************************)
(* The analyze route when the enqueue fails.                               *)
(***************************************************************************)
\* C39: when addAnalysisJob fails in the analyze route, no job is added and
\* the route leaves the project with the status it had before the request
\* (taken here where nothing else has written the status meanwhile).
C39_StatusRestored ==
    [][(AnalyzeEnqueue /\ jobs' = jobs /\ apath \notin jobs
          /\ projects[apath].status = "ANALYZING")
          => projects'[apath].status = aprev]_vars

(***************************************************************************)
(* The connection set and the keepalive timers.                            *)
(***************************************************************************)
\* C40: every socket of the connection set has its keepalive timer, and a
\* socket that is not in the set (not yet connected, or removed by its
\* close or error listener) has none.
C40_SetAndTimers ==
    /\ \A s \in clients : pinging[s]
    /\ \A s \in Sockets \ clients : ~pinging[s]

====
